---- MODULE Spec2Model ----
(***************************************************************************)
(* A model of the core of dmitrievsn/file_manager: the merge-copy of       *)
(* directory trees and the numbered free names (core/ops.py), the walk of  *)
(* a tree and the directory comparison (core/compare.py), the             *)
(* batch-rename planner (core/batch_rename.py), the locks (core/locks.py)  *)
(* and the workflows of the window that call them (ui/main_window.py).     *)
(*                                                                         *)
(* Strings are sequences of one-character strings, so that stem, suffix,   *)
(* strip, replace, zfill and the lexicographic order are computed the way  *)
(* Python computes them.  A path is the sequence of its components from    *)
(* the filesystem root; <<>> is the root directory.                        *)
(***************************************************************************)
EXTENDS Integers, Sequences, FiniteSets, TLC

VARIABLES fs, merge, cmp, ren, uniq, walk, locked, clipboard, win

vars == <<fs, merge, cmp, ren, uniq, walk, locked, clipboard, win>>

(***************************************************************************)
(* Bounds of the model.                                                    *)
(***************************************************************************)
\* Longest path (in components) the filesystem accepts; a longer one fails
\* with an OSError, as ENAMETOOLONG / RecursionError do on a real system.
MaxDepth == 4

(***************************************************************************)
(* Strings.                                                                *)
(***************************************************************************)
\* ord(c) for the characters the model uses.
Ord(c) ==
  CASE c = " " -> 32 [] c = "(" -> 40 [] c = ")" -> 41 [] c = "." -> 46
    [] c = "/" -> 47 [] c = "0" -> 48 [] c = "1" -> 49 [] c = "2" -> 50
    [] c = "3" -> 51 [] c = "4" -> 52 [] c = "5" -> 53 [] c = "6" -> 54
    [] c = "7" -> 55 [] c = "8" -> 56 [] c = "9" -> 57 [] c = ":" -> 58
    [] c = "a" -> 97 [] c = "b" -> 98 [] c = "d" -> 100 [] c = "e" -> 101
    [] c = "f" -> 102 [] c = "l" -> 108 [] c = "n" -> 110 [] c = "r" -> 114
    [] c = "s" -> 115 [] c = "t" -> 116 [] c = "x" -> 120 [] c = "y" -> 121 [] c = "z" -> 122
    [] c = "{" -> 123 [] c = "}" -> 125

RECURSIVE StrLess(_, _)
\* s < t for Python strings (code-point lexicographic order).
StrLess(s, t) ==
  IF t = <<>> THEN FALSE
  ELSE IF s = <<>> THEN TRUE
  ELSE IF Head(s) = Head(t) THEN StrLess(Tail(s), Tail(t))
  ELSE Ord(Head(s)) < Ord(Head(t))

\* str.rfind('.') + 1: the last position of a dot, 0 when there is none.
RFindDot(s) ==
  LET I == {i \in 1..Len(s) : s[i] = "."}
  IN IF I = {} THEN 0 ELSE CHOOSE i \in I : \A j \in I : j <= i

Digit(d) == <<"0", "1", "2", "3", "4", "5", "6", "7", "8", "9">>[d + 1]

RECURSIVE IntToStr(_)
\* str(i) for i >= 0.
IntToStr(i) ==
  IF i < 10 THEN <<Digit(i)>> ELSE IntToStr(i \div 10) \o <<Digit(i % 10)>>

(***************************************************************************)
(* Paths (pathlib.PurePosixPath).                                          *)
(***************************************************************************)
RECURSIVE SplitSlash(_, _)
\* s.split('/') with the empty and the '.' components dropped; acc is the
\* component being read.
SplitSlash(s, acc) ==
  LET keep == IF acc = <<>> \/ acc = <<".">> THEN <<>> ELSE <<acc>>
  IN IF s = <<>> THEN keep
     ELSE IF Head(s) = "/" THEN keep \o SplitSlash(Tail(s), <<>>)
     ELSE SplitSlash(Tail(s), Append(acc, Head(s)))

\* parent / name: a name that starts with '/' replaces the parent.
PathJoin(parent, name) ==
  IF name # <<>> /\ Head(name) = "/" THEN SplitSlash(name, <<>>)
  ELSE parent \o SplitSlash(name, <<>>)

\* Path.parent and Path.name; the root is its own parent.
Parent(p) == IF p = <<>> THEN <<>> ELSE SubSeq(p, 1, Len(p) - 1)

Name(p) == IF p = <<>> THEN <<>> ELSE p[Len(p)]

\* Path.suffix: from the last dot, unless it is the first or last character.
Suffix(p) ==
  LET n == Name(p)
      i == RFindDot(n)
  IN IF 1 < i /\ i < Len(n) THEN SubSeq(n, i, Len(n)) ELSE <<>>

\* Path.stem: the name without its suffix.
Stem(p) ==
  LET n == Name(p)
      i == RFindDot(n)
  IN IF 1 < i /\ i < Len(n) THEN SubSeq(n, 1, i - 1) ELSE n

\* p is q or lies under q.
IsUnder(p, q) == Len(q) <= Len(p) /\ SubSeq(p, 1, Len(q)) = q

(***************************************************************************)
(* The filesystem: a function from the paths that exist to their nodes.    *)
(* The root directory always exists.                                       *)
(***************************************************************************)
DirNode == [kind |-> "dir", data |-> 0, mtime |-> 0, err |-> "", target |-> <<>>]

FileNode(d, m) == [kind |-> "file", data |-> d, mtime |-> m, err |-> "", target |-> <<>>]

\* A symbolic link to the path t; its size is the length of what it holds.
LinkNode(t) == [kind |-> "link", data |-> 5, mtime |-> 1, err |-> "", target |-> t]

RECURSIVE JoinReal(_, _, _, _)
\* os.path.realpath: path is resolved already, rest is still to walk, active
\* are the links being resolved.  [ok, path]; ok is FALSE on a symlink loop.
JoinReal(f, path, rest, active) ==
  IF rest = <<>> THEN [ok |-> TRUE, path |-> path]
  ELSE LET newpath == Append(path, Head(rest))
       IN IF ~(newpath \in DOMAIN f /\ f[newpath].kind = "link")
          THEN JoinReal(f, newpath, Tail(rest), active)
          ELSE IF newpath \in active THEN [ok |-> FALSE, path |-> newpath]
          ELSE LET r == JoinReal(f, <<>>, f[newpath].target, active \cup {newpath})
               IN IF ~r.ok THEN r ELSE JoinReal(f, r.path, Tail(rest), active)

\* Path.resolve(): raises RuntimeError on a symlink loop (ok = FALSE).
Resolve(f, p) == JoinReal(f, <<>>, p, {})

\* What os.stat(p) finds, links followed: the node p leads to, or a node of
\* kind "none" when it leads nowhere (a missing entry, a dangling link, a loop).
StatNode(f, p) ==
  LET r == Resolve(f, p)
  IN IF r.ok /\ r.path \in DOMAIN f THEN f[r.path] ELSE [kind |-> "none"]

\* Path.exists(), Path.is_dir(), Path.is_file(): all three follow links.
Exists(f, p) == StatNode(f, p).kind # "none"

IsDir(f, p) == StatNode(f, p).kind = "dir"

IsFile(f, p) == StatNode(f, p).kind = "file"

RECURSIVE SortNames(_, _)
\* The names of S in ascending order, or descending when rev.
SortNames(S, rev) ==
  IF S = {} THEN <<>>
  ELSE LET m == CHOOSE x \in S : \A y \in S \ {x} :
                  IF rev THEN StrLess(y, x) ELSE StrLess(x, y)
       IN <<m>> \o SortNames(S \ {m}, rev)

\* Path.iterdir(): the entries of directory d, listed at once.  The order is
\* the operating system's; rev chooses between two opposite orders.
IterDir(f, d, rev) ==
  SortNames({Name(p) : p \in {q \in DOMAIN f : Len(q) = Len(d) + 1 /\ IsUnder(q, d)}}, rev)

(***************************************************************************)
(* Filesystem primitives.  Each returns [fs, err]: the filesystem after    *)
(* the call and the exception raised ("" when none).                       *)
(***************************************************************************)
Put(f, p, node) == (p :> node) @@ f

RECURSIVE Mkdirs(_, _)
\* Path.mkdir(parents=True, exist_ok=True)
Mkdirs(f, p) ==
  IF Exists(f, p)
  THEN [fs |-> f, err |-> IF IsDir(f, p) THEN "" ELSE "FileExistsError"]
  ELSE IF Len(p) > MaxDepth THEN [fs |-> f, err |-> "OSError"]
  ELSE LET up == Mkdirs(f, Parent(p))
       IN IF up.err # "" THEN [fs |-> f, err |-> "NotADirectoryError"]
          ELSE [fs |-> Put(up.fs, p, DirNode), err |-> ""]

\* shutil.copy2(src, dst): the content and the times of src, written to dst
\* (into dst when dst is a directory), replacing what dst held.
Copy2(f, src, dst) ==
  LET real == IF IsDir(f, dst) THEN Append(dst, Name(src)) ELSE dst
  IN IF ~Exists(f, src) THEN [fs |-> f, err |-> "FileNotFoundError"]
     ELSE IF real = src THEN [fs |-> f, err |-> "SameFileError"]
     ELSE IF f[src].kind # "file" THEN [fs |-> f, err |-> "IsADirectoryError"]
     ELSE IF f[src].err = "read" THEN [fs |-> f, err |-> "PermissionError"]
     ELSE IF IsDir(f, real) THEN [fs |-> f, err |-> "IsADirectoryError"]
     ELSE IF ~IsDir(f, Parent(real)) THEN [fs |-> f, err |-> "FileNotFoundError"]
     ELSE IF Len(real) > MaxDepth THEN [fs |-> f, err |-> "OSError"]
     ELSE [fs |-> Put(f, real, FileNode(f[src].data, f[src].mtime)), err |-> ""]

\* The entries at or under path p.
Subtree(f, p) == {q \in DOMAIN f : IsUnder(q, p)}

\* p with its leading q replaced by r.
Rebase(p, q, r) == r \o SubSeq(p, Len(q) + 1, Len(p))

\* os.rename(src, dst), which Path.rename calls: the entry src, with all
\* that lies under it, gets the path dst; a link is renamed, not followed; a
\* file or a link takes the place of a file or a link at dst, a directory
\* that of an empty directory.
Rename(f, src, dst) ==
  IF src \notin DOMAIN f \/ src = <<>> THEN [fs |-> f, err |-> "FileNotFoundError"]
  ELSE IF dst = <<>> THEN [fs |-> f, err |-> "OSError"]
  ELSE IF ~Exists(f, Parent(dst)) THEN [fs |-> f, err |-> "FileNotFoundError"]
  ELSE IF ~IsDir(f, Parent(dst)) THEN [fs |-> f, err |-> "NotADirectoryError"]
  ELSE IF src = dst THEN [fs |-> f, err |-> ""]
  ELSE IF f[src].kind = "dir" /\ IsUnder(dst, src) THEN [fs |-> f, err |-> "OSError"]
  ELSE IF dst \in DOMAIN f /\ f[src].kind = "dir" /\ f[dst].kind # "dir"
  THEN [fs |-> f, err |-> "NotADirectoryError"]
  ELSE IF dst \in DOMAIN f /\ f[src].kind # "dir" /\ f[dst].kind = "dir"
  THEN [fs |-> f, err |-> "IsADirectoryError"]
  ELSE IF dst \in DOMAIN f /\ Subtree(f, dst) # {dst} THEN [fs |-> f, err |-> "OSError"]
  ELSE IF \E q \in Subtree(f, src) : Len(Rebase(q, src, dst)) > MaxDepth
  THEN [fs |-> f, err |-> "OSError"]
  ELSE LET moved == {Rebase(q, src, dst) : q \in Subtree(f, src)}
           kept == (DOMAIN f \ Subtree(f, src)) \ {dst}
       IN [fs |-> [q \in kept \cup moved |->
                     IF q \in moved THEN f[Rebase(q, dst, src)] ELSE f[q]],
           err |-> ""]

RECURSIVE CopyTree(_, _, _)
\* shutil.copytree(src, dst): the entries of src are listed, dst is made (it
\* must not exist) and every entry is copied into it; an entry that fails is
\* passed over and the error is raised at the end.
CopyTree(f, src, dst) ==
  IF Exists(f, dst) THEN [fs |-> f, err |-> "FileExistsError"]
  ELSE LET made == Mkdirs(f, dst)
       IN IF made.err # "" THEN [fs |-> f, err |-> made.err]
          ELSE LET names == IterDir(f, src, FALSE)
                   Entry[i \in 0..Len(names)] ==
                     IF i = 0 THEN [fs |-> made.fs, err |-> ""]
                     ELSE LET g == Entry[i - 1]
                              from == Append(src, names[i])
                              to == Append(dst, names[i])
                              r == IF IsDir(g.fs, from) THEN CopyTree(g.fs, from, to)
                                   ELSE Copy2(g.fs, from, to)
                          IN [fs |-> r.fs, err |-> IF r.err # "" THEN "Error" ELSE g.err]
               IN Entry[Len(names)]

\* copy_any(src, dst)
copy_any(f, src, dst) ==
  IF IsDir(f, src) THEN CopyTree(f, src, dst) ELSE Copy2(f, src, dst)

\* move_any(src, dst), that is shutil.move: into dst when dst is a
\* directory, else a rename to dst; what a failed rename falls back to fails
\* too on one filesystem.
move_any(f, src, dst) ==
  LET real_dst == IF IsDir(f, dst) /\ dst # src THEN Append(dst, Name(src)) ELSE dst
  IN IF real_dst # dst /\ Exists(f, real_dst) THEN [fs |-> f, err |-> "Error"]
     ELSE LET Moved(r) == IF r.err = "" THEN r
                          ELSE IF IsDir(f, src) THEN [fs |-> f, err |-> "Error"]
                          ELSE [fs |-> f, err |-> "FileNotFoundError"]
          IN Moved(Rename(f, src, real_dst))

\* remove_any(path): rmtree for a directory, unlink for the rest; the entry
\* goes with all that lies under it.
remove_any(f, path) ==
  IF ~IsDir(f, path) /\ path \notin DOMAIN f THEN [fs |-> f, err |-> "FileNotFoundError"]
  ELSE [fs |-> [q \in DOMAIN f \ Subtree(f, path) |-> f[q]], err |-> ""]

(***************************************************************************)
(* core/ops.py: collision-free names.                                      *)
(***************************************************************************)
\* f"{stem} ({i}){suffix}"
Numbered(stem, i, suffix) == stem \o <<" ", "(">> \o IntToStr(i) \o <<")">> \o suffix

RECURSIVE FileProbe(_, _, _)
FileProbe(f, dst, i) ==
  LET cand == PathJoin(Parent(dst), Numbered(Stem(dst), i, Suffix(dst)))
  IN IF ~Exists(f, cand) THEN cand ELSE FileProbe(f, dst, i + 1)

\* A faulty variant: numbers the full name, as for a directory ('x.t (1)').
unique_file_path_AfterName(f, dst) ==
  PathJoin(Parent(dst), Numbered(Name(dst), 1, <<>>))

unique_file_path(f, dst) == FileProbe(f, dst, 1)

RECURSIVE DirProbe(_, _, _)
DirProbe(f, dst, i) ==
  LET cand == PathJoin(Parent(dst), Numbered(Name(dst), i, <<>>))
  IN IF ~Exists(f, cand) THEN cand ELSE DirProbe(f, dst, i + 1)

\* A faulty variant: the occupant decides the form, as in unique_path.
unique_dir_path_ByOccupant(f, dst) ==
  IF IsDir(f, dst) THEN DirProbe(f, dst, 1) ELSE FileProbe(f, dst, 1)

unique_dir_path(f, dst) == DirProbe(f, dst, 1)

unique_path(f, path) ==
  IF ~Exists(f, path) THEN path
  ELSE IF IsDir(f, path) THEN DirProbe(f, path, 1)
  ELSE FileProbe(f, path, 1)

(***************************************************************************)
(* core/ops.py: merge_copy_dir.  The result is [fs, err, log]; log is the  *)
(* sequence of what the call did: "enter" for each directory pair it was   *)
(* called on, "copy" for each file it copied.                              *)
(***************************************************************************)
\* A faulty variant: any occupant of the name, a directory too, sends the
\* source directory to a numbered name.
DirTarget_AnyOccupant(f, dst_item) ==
  IF Exists(f, dst_item) THEN unique_dir_path(f, dst_item) ELSE dst_item

\* The destination a source directory is merged into.
DirTarget(f, dst_item) ==
  IF Exists(f, dst_item) /\ IsFile(f, dst_item) THEN unique_dir_path(f, dst_item)
  ELSE dst_item

\* A faulty variant: the file is copied over whatever holds its name.
FileTarget_Overwrite(f, dst_item) == dst_item

\* The destination a source file is copied to.
FileTarget(f, dst_item) ==
  IF Exists(f, dst_item) THEN unique_file_path(f, dst_item) ELSE dst_item

\* A faulty variant: the destination is created before the source is looked at.
merge_copy_dir_MkdirFirst(f, log, src_dir, dst_dir, rev) ==
  LET made == Mkdirs(f, dst_dir)
  IN IF made.err # "" THEN [fs |-> f, err |-> made.err, log |-> log]
     ELSE [fs |-> made.fs,
           err |-> IF ~Exists(f, src_dir) \/ ~IsDir(f, src_dir) THEN "ValueError" ELSE "",
           log |-> log]

RECURSIVE merge_copy_dir(_, _, _, _, _), MergeItems(_, _, _, _, _, _)
merge_copy_dir(f, log, src_dir, dst_dir, rev) ==
  IF ~Exists(f, src_dir) \/ ~IsDir(f, src_dir)
  THEN [fs |-> f, err |-> "ValueError", log |-> log]
  ELSE LET m == Mkdirs(f, dst_dir)
       IN IF m.err # "" THEN [fs |-> f, err |-> m.err, log |-> log]
          ELSE MergeItems(m.fs,
                          Append(log, [ev |-> "enter", src |-> src_dir, dst |-> dst_dir]),
                          IterDir(m.fs, src_dir, rev), src_dir, dst_dir, rev)

\* The loop over src_dir.iterdir(): items are the names still to do.
MergeItems(f, log, items, src_dir, dst_dir, rev) ==
  IF items = <<>> THEN [fs |-> f, err |-> "", log |-> log]
  ELSE LET src_item == Append(src_dir, Head(items))
           dst_item == PathJoin(dst_dir, Head(items))
           r == IF IsDir(f, src_item)
                THEN merge_copy_dir(f, log, src_item, DirTarget(f, dst_item), rev)
                ELSE LET to == FileTarget(f, dst_item)
                         c == Copy2(f, src_item, to)
                     IN [fs |-> c.fs, err |-> c.err,
                         log |-> IF c.err = ""
                                 THEN Append(log, [ev |-> "copy", src |-> src_item, dst |-> to])
                                 ELSE log]
       IN IF r.err # "" THEN r
          ELSE MergeItems(r.fs, r.log, Tail(items), src_dir, dst_dir, rev)


(***************************************************************************)
(* The filesystems the merge is run on: a source side under /s and a       *)
(* destination side under /t, every slot absent or present as listed.      *)
(***************************************************************************)
Absent == [kind |-> "none", data |-> 0, mtime |-> 0, err |-> "", target |-> <<>>]

Unreadable(d, m) == [kind |-> "file", data |-> d, mtime |-> m, err |-> "read", target |-> <<>>]

nS == <<"s">>
nT == <<"t">>
nD == <<"d">>
nN == <<"n">>
nX == <<"x", ".", "t">>
nX1 == <<"x", " ", "(", "1", ")", ".", "t">>

\* Slots are listed parents first.
MergeSlots ==
  << <<<<nS>>, {DirNode, FileNode(1, 1), Absent}>>,
     <<<<nS, nX>>, {Absent, FileNode(1, 1), Unreadable(1, 1)}>>,
     <<<<nS, nX1>>, {Absent, FileNode(2, 1)}>>,
     <<<<nS, nD>>, {Absent, DirNode}>>,
     <<<<nS, nD, nX>>, {Absent, FileNode(2, 2)}>>,
     <<<<nS, nD, nN>>, {Absent, DirNode}>>,
     <<<<nT>>, {DirNode, FileNode(3, 1), Absent}>>,
     <<<<nT, nX>>, {Absent, FileNode(3, 2), DirNode}>>,
     <<<<nT, nX1>>, {Absent, FileNode(3, 1)}>>,
     <<<<nT, nD>>, {Absent, DirNode, FileNode(3, 2)}>>,
     <<<<nT, nD, nX>>, {Absent, FileNode(1, 2)}>>,
     <<<<nT, nD, nN>>, {Absent, FileNode(3, 1)}>> >>

RECURSIVE WorldsUpTo(_, _)
\* The filesystems over the first k slots: the root, and each slot absent or
\* present with one of its nodes, an entry only inside a directory.
WorldsUpTo(slots, k) ==
  IF k = 0 THEN {(<<>> :> DirNode)}
  ELSE LET p == slots[k][1]
           opts == slots[k][2]
       IN UNION {IF ~IsDir(f, Parent(p)) THEN {f}
                 ELSE {IF n.kind = "none" THEN f ELSE Put(f, p, n) : n \in opts}
                 : f \in WorldsUpTo(slots, k - 1)}

Worlds(slots) == WorldsUpTo(slots, Len(slots))

\* Every entry lies in a directory.
WellFormed(f) == \A p \in DOMAIN f : p = <<>> \/ IsDir(f, Parent(p))

(***************************************************************************)
(* The merge specification: one call of merge_copy_dir on a filesystem.    *)
(***************************************************************************)
NoCall == [op |-> "none"]

\* Clipboard(): nothing copied or cut.
NoClip == [src |-> <<>>, is_cut |-> FALSE]

MergeSrcArgs == {<<nS>>, <<nS, nD>>}

MergeDstArgs == {<<nS>>, <<nT>>, <<nS, nD>>, <<nT, nD>>, <<nT, nN>>, <<nT, nX>>}

Init ==
  /\ fs \in Worlds(MergeSlots)
  /\ merge = NoCall
  /\ cmp = NoCall
  /\ ren = NoCall
  /\ uniq = NoCall
  /\ walk = NoCall
  /\ locked = {}
  /\ clipboard = NoClip
  /\ win = NoCall

\* merge_copy_dir(src_dir, dst_dir), from call to return or exception.
MergeCopyDir(src_dir, dst_dir) ==
  /\ merge.op = "none"
  /\ \E rev \in BOOLEAN :
       LET r == merge_copy_dir(fs, <<>>, src_dir, dst_dir, rev)
       IN /\ fs' = r.fs
          /\ merge' = [op |-> "merge", src |-> src_dir, dst |-> dst_dir, rev |-> rev,
                       pre |-> fs, err |-> r.err, log |-> r.log]
  /\ UNCHANGED <<cmp, ren, uniq, walk, locked, clipboard, win>>

Next ==
  \E src_dir \in MergeSrcArgs, dst_dir \in MergeDstArgs : MergeCopyDir(src_dir, dst_dir)

Spec == Init /\ [][Next]_vars

(***************************************************************************)
(* core/compare.py: index_tree.                                            *)
(***************************************************************************)
\* index_tree's default limit.
DefaultLimit == 200000

\* A file whose stat() fails, an entry whose is_dir() fails, a directory whose
\* scandir() fails.
NoStat(d, m) == [kind |-> "file", data |-> d, mtime |-> m, err |-> "stat", target |-> <<>>]

NoType(d, m) == [kind |-> "file", data |-> d, mtime |-> m, err |-> "type", target |-> <<>>]

NoList == [kind |-> "dir", data |-> 0, mtime |-> 0, err |-> "list", target |-> <<>>]

DirAt(m) == [kind |-> "dir", data |-> m, mtime |-> m, err |-> "", target |-> <<>>]

\* st_size of an entry: contents 1 and 2 have the same length, content 3 is
\* longer; a directory or a link has the size its node gives.
SizeOf(node) == IF node.kind = "file" THEN (node.data + 1) \div 2 ELSE node.data

\* hashlib.sha256(content).hexdigest(): a non-empty string, different for
\* different contents.
Sha256Hex(d) == <<"h">> \o IntToStr(d)

NoneSha == [some |-> FALSE, hex |-> <<>>]

SomeSha(h) == [some |-> TRUE, hex |-> h]

\* bool(x) of an Optional[str].
Truthy(sha) == sha.some /\ sha.hex # <<>>

RECURSIVE JoinSlash(_)
\* str(path) of a relative path: its components joined by '/', '.' when empty.
JoinSlash(p) ==
  IF p = <<>> THEN <<>>
  ELSE IF Len(p) = 1 THEN p[1]
  ELSE p[1] \o <<"/">> \o JoinSlash(Tail(p))

RelStr(p, root) ==
  IF p = root THEN <<".">> ELSE JoinSlash(SubSeq(p, Len(root) + 1, Len(p)))

\* _sha256_file(Path(e.path)) inside its try: open() follows symbolic links
\* and fails on what is not a readable regular file.
HashOf(f, p) ==
  LET r == Resolve(f, p)
  IN IF r.ok /\ IsFile(f, r.path) /\ f[r.path].err # "read"
     THEN SomeSha(Sha256Hex(f[r.path].data))
     ELSE NoneSha

\* The record index_tree builds for the entry at path p.
FileInfo(f, p, rel, use_hash) ==
  LET is_dir == f[p].kind = "dir"
  IN [rel |-> rel,
      size |-> IF f[p].err = "stat" THEN 0 ELSE SizeOf(f[p]),
      mtime_ns |-> IF f[p].err = "stat" THEN 0 ELSE f[p].mtime,
      is_dir |-> is_dir,
      sha256 |-> IF use_hash /\ ~is_dir THEN HashOf(f, p) ELSE NoneSha]

RECURSIVE ScanEntries_FollowLinks(_, _, _, _, _, _, _)
\* A faulty variant: a link to a directory is pushed like a directory.
ScanEntries_FollowLinks(f, root, use_hash, cur, names, out, stack) ==
  IF names = <<>> THEN [out |-> out, stack |-> stack]
  ELSE LET p == Append(cur, Head(names))
           r == Resolve(f, p)
       IN IF ~r.ok \/ ~IsUnder(r.path, root) THEN [out |-> out, stack |-> stack]
          ELSE IF f[p].err = "type"
          THEN ScanEntries_FollowLinks(f, root, use_hash, cur, Tail(names), out, stack)
          ELSE LET rel == RelStr(r.path, root)
               IN ScanEntries_FollowLinks(f, root, use_hash, cur, Tail(names),
                                          (rel :> FileInfo(f, p, rel, use_hash)) @@ out,
                                          IF IsDir(f, p) THEN Append(stack, p) ELSE stack)

RECURSIVE ScanEntries(_, _, _, _, _, _, _)
\* The for loop over os.scandir(cur): names are the entries still to do.
\* [out, stack]; an exception ends the loop and keeps what was done.
ScanEntries(f, root, use_hash, cur, names, out, stack) ==
  IF names = <<>> THEN [out |-> out, stack |-> stack]
  ELSE LET p == Append(cur, Head(names))
           r == Resolve(f, p)
       IN IF ~r.ok \/ ~IsUnder(r.path, root) THEN [out |-> out, stack |-> stack]
          ELSE IF f[p].err = "type"
          THEN ScanEntries(f, root, use_hash, cur, Tail(names), out, stack)
          ELSE LET rel == RelStr(r.path, root)
               IN ScanEntries(f, root, use_hash, cur, Tail(names),
                              (rel :> FileInfo(f, p, rel, use_hash)) @@ out,
                              IF f[p].kind = "dir" THEN Append(stack, p) ELSE stack)

RECURSIVE IndexLoop(_, _, _, _, _, _, _)
\* The while loop of index_tree: pop a directory, scan it.
IndexLoop(f, root, use_hash, limit, rev, stack, out) ==
  IF stack = <<>> \/ ~(Cardinality(DOMAIN out) < limit) THEN out
  ELSE LET cur == stack[Len(stack)]
           rest == SubSeq(stack, 1, Len(stack) - 1)
       IN IF ~IsDir(f, cur) \/ f[cur].err = "list"
          THEN IndexLoop(f, root, use_hash, limit, rev, rest, out)
          ELSE LET s == ScanEntries(f, root, use_hash, cur, IterDir(f, cur, rev), out, rest)
               IN IndexLoop(f, root, use_hash, limit, rev, s.stack, s.out)

\* index_tree(root, use_hash, limit) on a root that resolve() accepts: the
\* dictionary rel -> FileInfo.
index_tree(f, root, use_hash, limit, rev) ==
  IndexLoop(f, Resolve(f, root).path, use_hash, limit, rev, <<Resolve(f, root).path>>, <<>>)

(***************************************************************************)
(* core/compare.py: compare_dirs.                                          *)
(***************************************************************************)
\* A faulty variant: the keys of the left snapshot alone.
Keys_LeftOnly(L, R) == DOMAIN L

\* keys = set(L.keys()) | set(R.keys())
Keys(L, R) == DOMAIN L \cup DOMAIN R

RECURSIVE SortedKeys_Descending(_)
\* A faulty variant: the keys from the last to the first.
SortedKeys_Descending(S) ==
  IF S = {} THEN <<>>
  ELSE LET m == CHOOSE x \in S : \A y \in S \ {x} : StrLess(y, x)
       IN <<m>> \o SortedKeys_Descending(S \ {m})

RECURSIVE SortedKeys(_)
\* sorted(keys)
SortedKeys(S) ==
  IF S = {} THEN <<>>
  ELSE LET m == CHOOSE x \in S : \A y \in S \ {x} : StrLess(x, y)
       IN <<m>> \o SortedKeys(S \ {m})

\* A faulty variant: the hashes are compared without the test that they are there.
FilesSame_NoNullTest(a, b, use_hash) ==
  IF use_hash
  THEN a.size = b.size /\ a.sha256 = b.sha256
  ELSE a.size = b.size /\ a.mtime_ns = b.mtime_ns

\* A faulty variant: without hashes the size alone decides.
FilesSame_SizeOnly(a, b, use_hash) ==
  IF use_hash
  THEN a.size = b.size /\ Truthy(a.sha256) /\ Truthy(b.sha256) /\ a.sha256 = b.sha256
  ELSE a.size = b.size

\* The rule for two files: are they the same?
FilesSame(a, b, use_hash) ==
  IF use_hash
  THEN a.size = b.size /\ Truthy(a.sha256) /\ Truthy(b.sha256) /\ a.sha256 = b.sha256
  ELSE a.size = b.size /\ a.mtime_ns = b.mtime_ns

\* A faulty variant: two directories fall through to the rule for files.
Classify_NoDirRule(L, R, k, use_hash) ==
  IF k \notin DOMAIN L THEN "only_right"
  ELSE IF k \notin DOMAIN R THEN "only_left"
  ELSE IF L[k].is_dir # R[k].is_dir THEN "different"
  ELSE IF FilesSame(L[k], R[k], use_hash) THEN "same"
  ELSE "different"

\* A faulty variant: a directory and a file of one name go through the rule
\* for files, and two directories are compared like files.
Classify_AllAsFiles(L, R, k, use_hash) ==
  IF k \notin DOMAIN L THEN "only_right"
  ELSE IF k \notin DOMAIN R THEN "only_left"
  ELSE IF L[k].size = R[k].size /\ L[k].mtime_ns = R[k].mtime_ns THEN "same"
  ELSE "different"

\* Where key k goes: "only_left", "only_right", "different" or "same".
Classify(L, R, k, use_hash) ==
  IF k \notin DOMAIN L THEN "only_right"
  ELSE IF k \notin DOMAIN R THEN "only_left"
  ELSE IF L[k].is_dir # R[k].is_dir THEN "different"
  ELSE IF L[k].is_dir /\ R[k].is_dir THEN "same"
  ELSE IF FilesSame(L[k], R[k], use_hash) THEN "same"
  ELSE "different"

RECURSIVE CompareLoop(_, _, _, _, _)
\* The for loop over sorted(keys): res holds the four lists.
CompareLoop(L, R, keys, use_hash, res) ==
  IF keys = <<>> THEN res
  ELSE LET k == Head(keys)
           c == Classify(L, R, k, use_hash)
           item == IF c = "only_right" THEN <<R[k]>>
                   ELSE IF c = "only_left" THEN <<L[k]>>
                   ELSE <<L[k], R[k]>>
       IN CompareLoop(L, R, Tail(keys), use_hash, [res EXCEPT ![c] = Append(@, item)])

compare_dirs(f, left, right, use_hash, rev) ==
  LET L == index_tree(f, left, use_hash, DefaultLimit, rev)
      R == index_tree(f, right, use_hash, DefaultLimit, rev)
  IN CompareLoop(L, R, SortedKeys(Keys(L, R)), use_hash,
                 [only_left |-> <<>>, only_right |-> <<>>, different |-> <<>>, same |-> <<>>])

(***************************************************************************)
(* The comparison specification: one call of compare_dirs on a filesystem  *)
(* with a left tree /l and a right tree /r.                                *)
(***************************************************************************)
nL == <<"l">>
nR == <<"r">>
nA == <<"a">>
nB == <<"b">>

CompareSlots ==
  << <<<<nL>>, {DirNode}>>,
     <<<<nL, nA>>, {Absent, FileNode(1, 1), Unreadable(1, 1), NoStat(1, 1), NoType(1, 1), DirNode}>>,
     <<<<nL, nD>>, {Absent, DirNode, NoList}>>,
     <<<<nL, nD, nB>>, {Absent, FileNode(1, 1), LinkNode(<<nL, nA>>), LinkNode(<<nR, nA>>),
                        LinkNode(<<nL, nD, nB>>)}>>,
     <<<<nR>>, {DirNode}>>,
     <<<<nR, nA>>, {Absent, FileNode(1, 1), FileNode(2, 1), FileNode(1, 2), FileNode(3, 1),
                    Unreadable(1, 1), DirAt(2)}>>,
     <<<<nR, nD>>, {Absent, DirAt(2), FileNode(1, 1)}>>,
     <<<<nR, nD, nB>>, {Absent, FileNode(1, 1)}>>,
     <<<<nR, nB>>, {Absent, FileNode(2, 2)}>> >>

CompareArgs == {<<<<nL>>, <<nR>>>>, <<<<nL>>, <<nL>>>>}

InitCompare ==
  /\ fs \in Worlds(CompareSlots)
  /\ merge = NoCall
  /\ cmp = NoCall
  /\ ren = NoCall
  /\ uniq = NoCall
  /\ walk = NoCall
  /\ locked = {}
  /\ clipboard = NoClip
  /\ win = NoCall

\* compare_dirs(left, right, use_hash), from call to return.
CompareDirs(left, right, use_hash) ==
  /\ cmp.op = "none"
  /\ \E rev \in BOOLEAN :
       cmp' = [op |-> "compare", left |-> left, right |-> right, use_hash |-> use_hash,
               L |-> index_tree(fs, left, use_hash, DefaultLimit, rev),
               R |-> index_tree(fs, right, use_hash, DefaultLimit, rev),
               res |-> compare_dirs(fs, left, right, use_hash, rev)]
  /\ UNCHANGED <<fs, merge, ren, uniq, walk, locked, clipboard, win>>

NextCompare ==
  \E args \in CompareArgs, use_hash \in BOOLEAN : CompareDirs(args[1], args[2], use_hash)

SpecCompare == InitCompare /\ [][NextCompare]_vars

(***************************************************************************)
(* core/batch_rename.py: strings and the regular expressions of the model. *)
(***************************************************************************)
RECURSIVE LStrip(_)
LStrip(s) == IF s # <<>> /\ Head(s) = " " THEN LStrip(Tail(s)) ELSE s

RECURSIVE RStrip(_)
RStrip(s) ==
  IF s # <<>> /\ s[Len(s)] = " " THEN RStrip(SubSeq(s, 1, Len(s) - 1)) ELSE s

\* (x or "").strip()
Strip(s) == RStrip(LStrip(s))

\* x or y, for strings.
OrElse(x, y) == IF x # <<>> THEN x ELSE y

StartsWith(s, pre) == Len(pre) <= Len(s) /\ SubSeq(s, 1, Len(pre)) = pre

Drop(s, k) == SubSeq(s, k + 1, Len(s))

\* sub in s
Contains(s, sub) == \E i \in 0..(Len(s) - Len(sub)) : StartsWith(Drop(s, i), sub)

RECURSIVE StrReplace(_, _, _)
\* s.replace(a, b) for a non-empty a: every occurrence, left to right.
StrReplace(s, a, b) ==
  IF s = <<>> THEN <<>>
  ELSE IF StartsWith(s, a) THEN b \o StrReplace(Drop(s, Len(a)), a, b)
  ELSE <<Head(s)>> \o StrReplace(Tail(s), a, b)

\* The patterns of the model are made of literal characters, '.', and groups
\* '(' ... ')'.  re.compile accepts one iff its parentheses balance.
RECURSIVE ParensBalance(_, _)
ParensBalance(a, depth) ==
  IF a = <<>> THEN depth = 0
  ELSE IF Head(a) = "(" THEN ParensBalance(Tail(a), depth + 1)
  ELSE IF Head(a) = ")" THEN depth > 0 /\ ParensBalance(Tail(a), depth - 1)
  ELSE ParensBalance(Tail(a), depth)

\* re.compile(a) does not raise re.error.
IsValidRegex(a) == ParensBalance(a, 0)

\* What the pattern matches, one item per character: a literal or '.'.
Atoms(a) == SelectSeq(a, LAMBDA c : c # "(" /\ c # ")")

MatchesAt(s, atoms) ==
  /\ Len(atoms) <= Len(s)
  /\ \A i \in 1..Len(atoms) : atoms[i] = "." \/ atoms[i] = s[i]

RECURSIVE ReSubFrom(_, _, _)
ReSubFrom(atoms, b, s) ==
  IF atoms = <<>>
  THEN IF s = <<>> THEN b ELSE b \o <<Head(s)>> \o ReSubFrom(atoms, b, Tail(s))
  ELSE IF s = <<>> THEN <<>>
  ELSE IF MatchesAt(s, atoms) THEN b \o ReSubFrom(atoms, b, Drop(s, Len(atoms)))
  ELSE <<Head(s)>> \o ReSubFrom(atoms, b, Tail(s))

\* re.sub(a, b, s) for a valid pattern a and a replacement b without
\* backslashes: every non-overlapping match, left to right.
ReSub(a, b, s) == ReSubFrom(Atoms(a), b, s)

IsDigit(c) == c \in {"0", "1", "2", "3", "4", "5", "6", "7", "8", "9"}

RECURSIVE DigitRun(_)
\* The length of the longest run of digits s starts with.
DigitRun(s) == IF s # <<>> /\ IsDigit(Head(s)) THEN 1 + DigitRun(Tail(s)) ELSE 0

RECURSIVE ParseInt(_, _)
\* int(digits), acc being the value read so far.
ParseInt(s, acc) ==
  IF s = <<>> THEN acc ELSE ParseInt(Tail(s), 10 * acc + (Ord(Head(s)) - Ord("0")))

RECURSIVE ZFill_Right(_, _)
\* A faulty variant: the zeros follow the digits.
ZFill_Right(s, w) == IF Len(s) >= w THEN s ELSE ZFill_Right(s \o <<"0">>, w)

RECURSIVE ZFill(_, _)
\* s.zfill(w) for the digits s of a number >= 0.
ZFill(s, w) == IF Len(s) >= w THEN s ELSE ZFill(<<"0">> \o s, w)

RECURSIVE ApplyTemplateFrom(_, _)
\* re.sub(r"\{n(?::([0-9]+))?\}", repl, template), read from the left.
ApplyTemplateFrom(idx, t) ==
  IF t = <<>> THEN <<>>
  ELSE IF StartsWith(t, <<"{", "n", "}">>)
  THEN IntToStr(idx) \o ApplyTemplateFrom(idx, Drop(t, 3))
  ELSE LET k == DigitRun(Drop(t, 3))
       IN IF /\ StartsWith(t, <<"{", "n", ":">>)
             /\ k >= 1
             /\ StartsWith(Drop(t, 3 + k), <<"}">>)
          THEN ZFill(IntToStr(idx), ParseInt(SubSeq(t, 4, 3 + k), 0))
               \o ApplyTemplateFrom(idx, Drop(t, 4 + k))
          ELSE <<Head(t)>> \o ApplyTemplateFrom(idx, Tail(t))

apply_template(idx, template) == ApplyTemplateFrom(idx, template)

(***************************************************************************)
(* core/batch_rename.py: build_plan.                                       *)
(***************************************************************************)
\* A faulty variant, without re.compile: a pattern is only required to be non-empty.
ValidationError_NoCompile(mode, a, b, template) ==
  IF mode \in {"prefix", "suffix"} /\ OrElse(b, a) = <<>> THEN "affix"
  ELSE IF mode = "replace" /\ a = <<>> THEN "search"
  ELSE IF mode = "regex" /\ a = <<>> THEN "regex_empty"
  ELSE IF mode = "template" /\ OrElse(template, b) = <<>> THEN "template_empty"
  ELSE IF mode = "template" /\ ~Contains(OrElse(template, b), <<"{", "n">>) THEN "template_marker"
  ELSE ""

\* The checks of the parameters, in the order of the code: the error raised,
\* "" when none.
ValidationError(mode, a, b, template) ==
  IF mode \in {"prefix", "suffix"} /\ OrElse(b, a) = <<>> THEN "affix"
  ELSE IF mode = "replace" /\ a = <<>> THEN "search"
  ELSE IF mode = "regex" /\ a = <<>> THEN "regex_empty"
  ELSE IF mode = "regex" /\ ~IsValidRegex(a) THEN "regex_invalid"
  ELSE IF mode = "template" /\ OrElse(template, b) = <<>> THEN "template_empty"
  ELSE IF mode = "template" /\ ~Contains(OrElse(template, b), <<"{", "n">>) THEN "template_marker"
  ELSE ""

\* The new stem of path p, idx being the counter.
NewStem(p, mode, a, b, template, idx) ==
  CASE mode = "prefix" -> OrElse(b, a) \o Stem(p)
    [] mode = "suffix" -> Stem(p) \o OrElse(b, a)
    [] mode = "replace" -> StrReplace(Stem(p), a, b)
    [] mode = "regex" -> ReSub(a, b, Stem(p))
    [] mode = "template" -> apply_template(idx, OrElse(template, b))

RECURSIVE PlanItems(_, _, _, _, _, _, _)
\* The for loop over paths: the items, idx being the counter of the first.
PlanItems(paths, mode, a, b, template, idx, step) ==
  IF paths = <<>> THEN <<>>
  ELSE LET p == Head(paths)
           new_name == NewStem(p, mode, a, b, template, idx) \o Suffix(p)
       IN <<[src |-> p, dst |-> PathJoin(Parent(p), new_name)]>>
          \o PlanItems(Tail(paths), mode, a, b, template, idx + step, step)

\* len(set(dsts)) != len(dsts)
HasDuplicates(out) == Cardinality({out[i].dst : i \in 1..Len(out)}) # Len(out)

\* Path.exists(): os.stat follows links; a missing target or a loop of links
\* gives False.
PathExists(f, p) == LET r == Resolve(f, p) IN r.ok /\ r.path \in DOMAIN f

\* it.dst.exists() and it.dst.resolve() != it.src.resolve()
HitsOther(f, it) ==
  PathExists(f, it.dst) /\ Resolve(f, it.dst).path # Resolve(f, it.src).path

\* it.src.resolve() raises RuntimeError, on a loop of links, where the test
\* above calls it.
SrcLoops(f, it) == PathExists(f, it.dst) /\ ~Resolve(f, it.src).ok

RECURSIVE CheckExisting(_, _, _)
\* The second for loop, from item i: the error of the first item that has one.
CheckExisting(f, out, i) ==
  IF i > Len(out) THEN ""
  ELSE IF SrcLoops(f, out[i]) THEN "loop"
  ELSE IF HitsOther(f, out[i]) THEN "exists"
  ELSE CheckExisting(f, out, i + 1)

\* build_plan: [err, plan, computed]; err is "" and plan the list returned,
\* or err names the exception raised; computed counts the destinations that
\* were computed before the return or the raise.
build_plan(f, paths, mode, a0, b0, template0, start, step) ==
  LET a == Strip(a0)
      b == Strip(b0)
      template == Strip(template0)
      bad == ValidationError(mode, a, b, template)
  IN IF bad # "" THEN [err |-> bad, plan |-> <<>>, computed |-> 0]
     ELSE IF mode \notin {"prefix", "suffix", "replace", "regex", "template"}
     THEN IF paths = <<>> THEN [err |-> "", plan |-> <<>>, computed |-> 0]
          ELSE [err |-> "mode", plan |-> <<>>, computed |-> 0]
     ELSE LET out == PlanItems(paths, mode, a, b, template, start, step)
          IN IF HasDuplicates(out)
             THEN [err |-> "duplicate", plan |-> <<>>, computed |-> Len(out)]
             ELSE IF CheckExisting(f, out, 1) # ""
             THEN [err |-> CheckExisting(f, out, 1), plan |-> <<>>, computed |-> Len(out)]
             ELSE [err |-> "", plan |-> out, computed |-> Len(out)]

(***************************************************************************)
(* The planner specification: one call of build_plan on a directory /d.    *)
(***************************************************************************)
\* Most paths in one call.
MaxPaths == 2

nAt == <<"a", ".", "t">>
nBt == <<"b", ".", "t">>
nABt == <<"a", "b", ".", "t">>
n1t == <<"1", ".", "t">>

nZ == <<"z">>

\* /d: a.t is a file; b.t is a file or a link to ab.t; ab.t is missing, a
\* file, a link to b.t or a link to the missing /d/z.
PlanSlots ==
  << <<<<nD>>, {DirNode}>>,
     <<<<nD, nAt>>, {FileNode(1, 1)}>>,
     <<<<nD, nBt>>, {FileNode(2, 1), LinkNode(<<nD, nABt>>)}>>,
     <<<<nD, nABt>>, {Absent, FileNode(3, 1), LinkNode(<<nD, nBt>>), LinkNode(<<nD, nZ>>)}>>,
     <<<<nD, n1t>>, {Absent, FileNode(1, 1)}>>,
     <<<<nD, nB>>, {DirNode}>> >>

\* What the user can select: the entries of /d the rules of the model rename.
Selectable == {<<nD, nAt>>, <<nD, nBt>>, <<nD, nABt>>, <<nD, nB>>}

\* The lists of at most n different selected paths; the dialog keeps the
\* selected paths that exist.
PathLists(f, n) ==
  LET shown == {p \in Selectable : p \in DOMAIN f /\ PathExists(f, p)}
  IN UNION {{q \in [1..k -> shown] : \A i, j \in 1..k : i # j => q[i] # q[j]}
            : k \in 0..n}

\* The texts of the fields A and B.
Texts == {<<>>, <<" ">>, <<"a">>, <<"b">>, <<" ", "b">>}

\* Texts of the field B that hold a path separator.
SeparatorTexts == {<<"b", "/">>, <<"/", "b">>}

\* The patterns of the field A in regex mode.
Patterns == {<<>>, <<" ">>, <<"a">>, <<".">>, <<"(">>, <<")">>, <<"(", "a", ")">>, <<"(", ")">>}

\* The texts of the template field.
Templates ==
  {<<>>, <<"f">>, <<"{", "n", "}">>, <<"f", "{", "n", ":", "0", "3", "}">>,
   <<"{", "n", ":", "2", "}", "{", "n", "}">>, <<"{", "n">>, <<"{", "n", ":", "}">>,
   <<" ", "{", "n", "}">>}

\* The texts of the field B in template mode.
TemplateB == {<<>>, <<"b">>, <<"{", "n", "}">>}

\* The values of the start and step spin boxes the model tries.
Starts == {1, 9, 98}

Steps == {1, 2}

\* The parameters of a call: [mode, a, b, template, start, step].  The
\* template, start and step are read in template mode only, and B is read
\* there only when the template field is empty.
Params ==
  [mode : {"prefix", "suffix", "replace"}, a : Texts, b : Texts,
   template : {<<>>}, start : {1}, step : {1}]
  \cup [mode : {"prefix", "suffix"}, a : {<<>>}, b : SeparatorTexts,
        template : {<<>>}, start : {1}, step : {1}]
  \cup [mode : {"regex"}, a : Patterns, b : {<<>>, <<"b">>},
        template : {<<>>}, start : {1}, step : {1}]
  \cup [mode : {"template"}, a : {<<>>}, b : {<<>>},
        template : Templates \ {<<>>}, start : Starts, step : Steps]
  \cup [mode : {"template"}, a : {<<>>}, b : TemplateB,
        template : {<<>>}, start : Starts, step : Steps]

InitPlan ==
  /\ fs \in Worlds(PlanSlots)
  /\ merge = NoCall
  /\ cmp = NoCall
  /\ ren = NoCall
  /\ uniq = NoCall
  /\ walk = NoCall
  /\ locked = {}
  /\ clipboard = NoClip
  /\ win = NoCall

\* build_plan(paths, mode, a, b, template, start, step), from call to return
\* or exception.
BuildPlan(paths, q) ==
  /\ ren.op = "none"
  /\ LET r == build_plan(fs, paths, q.mode, q.a, q.b, q.template, q.start, q.step)
     IN ren' = [op |-> "plan", paths |-> paths, mode |-> q.mode, a |-> q.a, b |-> q.b,
                template |-> q.template, start |-> q.start, step |-> q.step,
                pre |-> fs, err |-> r.err, plan |-> r.plan, computed |-> r.computed]
  /\ UNCHANGED <<fs, merge, cmp, uniq, walk, locked, clipboard, win>>

NextPlan ==
  \E paths \in PathLists(fs, MaxPaths), q \in Params : BuildPlan(paths, q)

SpecPlan == InitPlan /\ [][NextPlan]_vars

(***************************************************************************)
(* The specification of the collision-free names: one call of unique_path, *)
(* unique_file_path or unique_dir_path on an entry of the directory /d.    *)
(***************************************************************************)
nA1t == <<"a", " ", "(", "1", ")", ".", "t">>
nA2t == <<"a", " ", "(", "2", ")", ".", "t">>
nAt1 == <<"a", ".", "t", " ", "(", "1", ")">>
nAt2 == <<"a", ".", "t", " ", "(", "2", ")">>
nB1 == <<"b", " ", "(", "1", ")">>
nDotT == <<".", "t">>

\* /d: the candidates a.t, b and .t, and the numbered names next to them; a
\* numbered name may be held by a link to the missing /d/z.
UniqueSlots ==
  << <<<<nD>>, {DirNode}>>,
     <<<<nD, nAt>>, {Absent, FileNode(1, 1), DirNode}>>,
     <<<<nD, nA1t>>, {Absent, FileNode(1, 1), DirNode, LinkNode(<<nD, nZ>>)}>>,
     <<<<nD, nA2t>>, {Absent, FileNode(1, 1)}>>,
     <<<<nD, nAt1>>, {Absent, FileNode(1, 1), LinkNode(<<nD, nZ>>)}>>,
     <<<<nD, nAt2>>, {Absent, DirNode}>>,
     <<<<nD, nB>>, {Absent, DirNode}>>,
     <<<<nD, nB1>>, {Absent, FileNode(1, 1)}>>,
     <<<<nD, nDotT>>, {Absent, FileNode(1, 1)}>> >>

UniqueFns == {"unique_path", "unique_file_path", "unique_dir_path"}

UniqueArgs == {<<nD, nAt>>, <<nD, nB>>, <<nD, nDotT>>}

InitUnique ==
  /\ fs \in Worlds(UniqueSlots)
  /\ merge = NoCall
  /\ cmp = NoCall
  /\ ren = NoCall
  /\ uniq = NoCall
  /\ walk = NoCall
  /\ locked = {}
  /\ clipboard = NoClip
  /\ win = NoCall

\* fn(path), from call to return.
Unique(fn, path) ==
  /\ uniq.op = "none"
  /\ uniq' = [op |-> "unique", fn |-> fn, path |-> path,
              res |-> CASE fn = "unique_path" -> unique_path(fs, path)
                        [] fn = "unique_file_path" -> unique_file_path(fs, path)
                        [] fn = "unique_dir_path" -> unique_dir_path(fs, path)]
  /\ UNCHANGED <<fs, merge, cmp, ren, walk, locked, clipboard, win>>

NextUnique == \E fn \in UniqueFns, path \in UniqueArgs : Unique(fn, path)

SpecUnique == InitUnique /\ [][NextUnique]_vars

(***************************************************************************)
(* The specification of the walk: one call of index_tree on /l, a step for *)
(* each turn of its while loop.  walk.scanned lists the directories that   *)
(* os.scandir was called on.                                               *)
(***************************************************************************)
nE == <<"e">>

\* /l: the entries a and b, the directories d (with d/b and d/e/a) and n
\* (with n/a); b may be a link out of the tree or a link to itself, d/b a
\* link to the directory that holds it.
WalkSlots ==
  << <<<<nL>>, {DirNode}>>,
     <<<<nL, nA>>, {Absent, FileNode(1, 1), NoType(1, 1)}>>,
     <<<<nL, nB>>, {Absent, FileNode(1, 1), LinkNode(<<nR, nA>>), LinkNode(<<nL, nB>>)}>>,
     <<<<nL, nD>>, {Absent, DirNode, NoList}>>,
     <<<<nL, nD, nB>>, {Absent, FileNode(1, 1), LinkNode(<<nL, nD>>)}>>,
     <<<<nL, nD, nE>>, {Absent, DirNode}>>,
     <<<<nL, nD, nE, nA>>, {FileNode(1, 1)}>>,
     <<<<nL, nN>>, {Absent, DirNode}>>,
     <<<<nL, nN, nA>>, {FileNode(1, 1)}>>,
     <<<<nR>>, {DirNode}>>,
     <<<<nR, nA>>, {FileNode(1, 1)}>> >>

\* The values of limit the model tries.
Limits == {0, 1, DefaultLimit}

InitWalk ==
  /\ fs \in Worlds(WalkSlots)
  /\ merge = NoCall
  /\ cmp = NoCall
  /\ ren = NoCall
  /\ uniq = NoCall
  /\ walk = NoCall
  /\ locked = {}
  /\ clipboard = NoClip
  /\ win = NoCall

\* index_tree(root, use_hash, limit) up to its while loop.
IndexStart(root, use_hash, limit) ==
  /\ walk.op = "none"
  /\ \E rev \in BOOLEAN :
       walk' = [op |-> "walk", root |-> Resolve(fs, root).path, use_hash |-> use_hash,
                limit |-> limit, rev |-> rev, stack |-> <<Resolve(fs, root).path>>,
                out |-> <<>>, scanned |-> <<>>, done |-> FALSE]
  /\ UNCHANGED <<fs, merge, cmp, ren, uniq, locked, clipboard, win>>

\* while stack and len(out) < limit
WalkGoesOn == walk.stack # <<>> /\ Cardinality(DOMAIN walk.out) < walk.limit

\* One turn of the while loop: pop a directory and scan it.  cur, names and
\* s are bound once each: the directory, what os.scandir lists (nothing when
\* it raises) and what the for loop leaves.
IndexPop ==
  /\ walk.op = "walk" /\ ~walk.done
  /\ WalkGoesOn
  /\ \E cur \in {walk.stack[Len(walk.stack)]} :
     \E rest \in {SubSeq(walk.stack, 1, Len(walk.stack) - 1)} :
     \E names \in {IF IsDir(fs, cur) /\ fs[cur].err # "list"
                   THEN IterDir(fs, cur, walk.rev) ELSE <<>>} :
     \E s \in {ScanEntries(fs, walk.root, walk.use_hash, cur, names, walk.out, rest)} :
       walk' = [walk EXCEPT !.stack = s.stack, !.out = s.out,
                            !.scanned = Append(walk.scanned, cur)]
  /\ UNCHANGED <<fs, merge, cmp, ren, uniq, locked, clipboard, win>>

\* return out
IndexReturn ==
  /\ walk.op = "walk" /\ ~walk.done
  /\ ~WalkGoesOn
  /\ walk' = [walk EXCEPT !.done = TRUE]
  /\ UNCHANGED <<fs, merge, cmp, ren, uniq, locked, clipboard, win>>

NextWalk ==
  \/ \E use_hash \in BOOLEAN, limit \in Limits : IndexStart(<<nL>>, use_hash, limit)
  \/ IndexPop
  \/ IndexReturn

SpecWalk == InitWalk /\ [][NextWalk]_vars

\* The walk runs on: the loop is a loop of one thread that nothing suspends.
FairWalk == SpecWalk /\ WF_vars(NextWalk)

(***************************************************************************)
(* ui/main_window.py: open_batch_rename, the caller of build_plan.         *)
(***************************************************************************)
RECURSIVE ApplyItems(_, _, _, _)
\* for it in plan: it.src.rename(it.dst), inside one try: the first rename
\* that raises ends the loop.  [fs, err, tried, met]; tried counts the
\* renames that were called, from item i on, and met lists what each of them
\* found at its destination ("none", "file", "dir" or "link").
ApplyItems(f, plan, i, met) ==
  IF i > Len(plan) THEN [fs |-> f, err |-> "", tried |-> i - 1, met |-> met]
  ELSE LET at == IF plan[i].dst \in DOMAIN f THEN f[plan[i].dst].kind ELSE "none"
           Renamed(r) ==
             IF r.err # "" THEN [fs |-> f, err |-> r.err, tried |-> i, met |-> Append(met, at)]
             ELSE ApplyItems(r.fs, plan, i + 1, Append(met, at))
       IN Renamed(Rename(f, plan[i].src, plan[i].dst))

\* open_batch_rename with the rows items selected: the dialog keeps the
\* paths that exist, builds the plan from the fields q on Preview, and the
\* window applies the plan on OK.  [fs, plan, err, tried, met]; err is "" or the
\* error that was shown.
open_batch_rename(f, items, q) ==
  LET selected == SelectSeq(items, LAMBDA x : PathExists(f, x))
      Outcome(plan, done) ==
        [fs |-> done.fs, plan |-> plan, err |-> done.err, tried |-> done.tried,
         met |-> done.met]
      OnOk(r) ==
        IF r.err # "" \/ r.plan = <<>>
        THEN [fs |-> f, plan |-> <<>>, err |-> "noplan", tried |-> 0, met |-> <<>>]
        ELSE Outcome(r.plan, ApplyItems(f, r.plan, 1, <<>>))
  IN IF items = <<>>
     THEN [fs |-> f, plan |-> <<>>, err |-> "nothing", tried |-> 0, met |-> <<>>]
     ELSE OnOk(build_plan(f, selected, q.mode, q.a, q.b, q.template, q.start, q.step))

\* The workflows the window has run so far.
OpsDone == IF win.op = "none" THEN 0 ELSE win.n

\* The user selects rows, opens the batch-rename dialog, fills the fields,
\* presses Preview and OK.
OpenBatchRename(items, q) ==
  /\ \E r \in {open_batch_rename(fs, items, q)} :
        /\ fs' = r.fs
        /\ win' = [op |-> "batch", n |-> OpsDone + 1, pre |-> fs, lockedPre |-> locked,
                   clipPre |-> clipboard, items |-> items, plan |-> r.plan,
                   err |-> r.err, tried |-> r.tried, met |-> r.met]
  /\ UNCHANGED <<merge, cmp, ren, uniq, walk, locked, clipboard>>

(***************************************************************************)
(* The specification of the batch rename: one run of open_batch_rename on  *)
(* the directory /d of the planner.                                        *)
(***************************************************************************)
InitApply ==
  /\ fs \in Worlds(PlanSlots)
  /\ merge = NoCall
  /\ cmp = NoCall
  /\ ren = NoCall
  /\ uniq = NoCall
  /\ walk = NoCall
  /\ locked = {}
  /\ clipboard = NoClip
  /\ win = NoCall

NextApply ==
  /\ win.op = "none"
  /\ \E items \in PathLists(fs, MaxPaths), q \in Params : OpenBatchRename(items, q)

SpecApply == InitApply /\ [][NextApply]_vars

(***************************************************************************)
(* core/locks.py and ui/main_window.py: the locks, the clipboard and the   *)
(* workflows of the window.  A handler gives [fs, clipboard, err]; err is  *)
(* "" or names the reason it stopped.                                      *)
(***************************************************************************)
\* is_locked(p): the resolved path is in the set locks.json holds.
is_locked(f, lk, p) == Resolve(f, p).path \in lk

RECURSIVE apply_attrs(_, _, _, _)
\* apply_attrs(paths, req) with a request that only sets or clears the lock:
\* the set of locks after it.
apply_attrs(f, lk, paths, lock) ==
  IF paths = <<>> THEN lk
  ELSE LET q == Resolve(f, Head(paths)).path
           now == IF ~Exists(f, q) THEN lk
                  ELSE IF lock THEN lk \cup {q} ELSE lk \ {q}
       IN apply_attrs(f, now, Tail(paths), lock)

\* copy_selected (is_cut FALSE) and cut_selected (is_cut TRUE): the first
\* selected row goes to the clipboard.
copy_or_cut(f, lk, clip, items, is_cut) ==
  IF items = <<>> THEN clip
  ELSE IF is_locked(f, lk, items[1]) THEN clip
  ELSE [src |-> items[1], is_cut |-> is_cut]

\* A faulty variant: the lock of the destination directory is not looked at.
PasteRefused_SourceOnly(f, lk, clip, dst_dir) == is_locked(f, lk, clip.src)

\* paste_item stops at a lock of the source or of the destination directory.
PasteRefused(f, lk, clip, dst_dir) ==
  is_locked(f, lk, clip.src) \/ is_locked(f, lk, Resolve(f, dst_dir).path)

\* The try block of paste_item: [fs, err], err "cancel" when the user
\* declines the merge.
PasteBody(f, clip, dst_dir, confirm, rev) ==
  LET src == clip.src
      dst == PathJoin(dst_dir, Name(src))
      Put1(to) == IF clip.is_cut THEN move_any(f, src, to) ELSE copy_any(f, src, to)
      Merged(r) == IF r.err # "" THEN [fs |-> r.fs, err |-> r.err]
                   ELSE IF clip.is_cut THEN remove_any(r.fs, src)
                   ELSE [fs |-> r.fs, err |-> ""]
  IN IF IsDir(f, src) /\ Exists(f, dst) /\ IsDir(f, dst)
     THEN IF ~confirm THEN [fs |-> f, err |-> "cancel"]
          ELSE Merged(merge_copy_dir(f, <<>>, src, dst, rev))
     ELSE Put1(IF IsDir(f, src)
               THEN IF Exists(f, dst) /\ IsFile(f, dst) THEN unique_dir_path(f, dst) ELSE dst
               ELSE IF Exists(f, dst) THEN unique_file_path(f, dst) ELSE dst)

\* paste_item(dst_dir)
paste_item(f, lk, clip, dst_dir, confirm, rev) ==
  IF clip.src = <<>> THEN [fs |-> f, clipboard |-> clip, err |-> "empty"]
  ELSE IF PasteRefused(f, lk, clip, dst_dir) THEN [fs |-> f, clipboard |-> clip, err |-> "locked"]
  ELSE LET Done(r) ==
             [fs |-> r.fs, clipboard |-> IF r.err = "" THEN NoClip ELSE clip, err |-> r.err]
       IN Done(PasteBody(f, clip, Resolve(f, dst_dir).path, confirm, rev))

\* rename_selected: the current row p gets the name the user typed.
rename_selected(f, lk, p, new_name) ==
  LET new_path == PathJoin(Parent(p), Strip(new_name))
  IN IF is_locked(f, lk, p) THEN [fs |-> f, err |-> "locked"]
     ELSE IF Strip(new_name) = <<>> THEN [fs |-> f, err |-> "cancel"]
     ELSE IF Exists(f, new_path) THEN [fs |-> f, err |-> "exists"]
     ELSE Rename(f, p, new_path)

RECURSIVE RemoveAll(_, _)
\* for x in items: remove_any(x), inside one try.
RemoveAll(f, items) ==
  IF items = <<>> THEN [fs |-> f, err |-> ""]
  ELSE LET r == remove_any(f, Head(items))
       IN IF r.err # "" THEN r ELSE RemoveAll(r.fs, Tail(items))

\* delete_selected: yes is the answer to the question.
delete_selected(f, lk, items, yes) ==
  IF items = <<>> THEN [fs |-> f, err |-> "nothing"]
  ELSE IF \E i \in 1..Len(items) : is_locked(f, lk, items[i]) THEN [fs |-> f, err |-> "locked"]
  ELSE IF ~yes THEN [fs |-> f, err |-> "cancel"]
  ELSE RemoveAll(f, items)

(***************************************************************************)
(* The specification of the window: the two panels show /l and /r, the     *)
(* locks are those locks.json held at start, and the user runs workflows.  *)
(***************************************************************************)
\* Most workflows in one behaviour.
MaxOps == 3

WindowSlots ==
  << <<<<nL>>, {DirNode}>>,
     <<<<nL, nS>>, {DirNode}>>,
     <<<<nL, nS, nX>>, {FileNode(1, 1)}>>,
     <<<<nL, nAt>>, {Absent, FileNode(2, 1)}>>,
     <<<<nR>>, {DirNode}>>,
     <<<<nR, nS>>, {Absent, DirNode, FileNode(3, 1)}>>,
     <<<<nR, nS, nX>>, {Absent, FileNode(3, 2)}>> >>

\* The paths a lock can be on.
Lockable == {<<nR>>, <<nL, nS, nX>>, <<nL, nS>>}

\* The rows the user selects; a row shows an entry that exists.
Rows == {<<nL, nS>>, <<nL, nAt>>}

Selections(f) ==
  {sel \in {<<<<nL, nS>>>>, <<<<nL, nAt>>>>, <<<<nL, nAt>>, <<nL, nS>>>>} :
     \A i \in 1..Len(sel) : sel[i] \in DOMAIN f}

\* The directories the user pastes into.
PasteDirs == {<<nL>>, <<nR>>, <<nL, nS>>}

InitWindow ==
  /\ fs \in Worlds(WindowSlots)
  /\ merge = NoCall
  /\ cmp = NoCall
  /\ ren = NoCall
  /\ uniq = NoCall
  /\ walk = NoCall
  /\ locked \in SUBSET Lockable
  /\ clipboard = NoClip
  /\ win = NoCall

\* What every workflow records: its number and the state it started in.
Started(op) ==
  [op |-> op, n |-> OpsDone + 1, pre |-> fs, lockedPre |-> locked, clipPre |-> clipboard]

\* open_attrs: the lock of the selected rows is set or cleared.
OpenAttrs(items, lock) ==
  /\ locked' = apply_attrs(fs, locked, items, lock)
  /\ win' = Started("attrs") @@ [items |-> items, err |-> ""]
  /\ UNCHANGED <<fs, merge, cmp, ren, uniq, walk, clipboard>>

CopySelected(items) ==
  /\ clipboard' = copy_or_cut(fs, locked, clipboard, items, FALSE)
  /\ win' = Started("copy") @@ [items |-> items, err |-> ""]
  /\ UNCHANGED <<fs, merge, cmp, ren, uniq, walk, locked>>

CutSelected(items) ==
  /\ clipboard' = copy_or_cut(fs, locked, clipboard, items, TRUE)
  /\ win' = Started("cut") @@ [items |-> items, err |-> ""]
  /\ UNCHANGED <<fs, merge, cmp, ren, uniq, walk, locked>>

PasteItem(dst_dir, confirm) ==
  /\ \E rev \in BOOLEAN :
       \E r \in {paste_item(fs, locked, clipboard, dst_dir, confirm, rev)} :
          /\ fs' = r.fs
          /\ clipboard' = r.clipboard
          /\ win' = Started("paste") @@ [dst_dir |-> dst_dir, err |-> r.err]
  /\ UNCHANGED <<merge, cmp, ren, uniq, walk, locked>>

RenameSelected(p, new_name) ==
  /\ \E r \in {rename_selected(fs, locked, p, new_name)} :
        /\ fs' = r.fs
        /\ win' = Started("rename") @@ [items |-> <<p>>, err |-> r.err]
  /\ UNCHANGED <<merge, cmp, ren, uniq, walk, locked, clipboard>>

DeleteSelected(items, yes) ==
  /\ \E r \in {delete_selected(fs, locked, items, yes)} :
        /\ fs' = r.fs
        /\ win' = Started("delete") @@ [items |-> items, err |-> r.err]
  /\ UNCHANGED <<merge, cmp, ren, uniq, walk, locked, clipboard>>

NextWindow ==
  /\ OpsDone < MaxOps
  /\ \/ \E p \in Lockable, lock \in BOOLEAN : p \in DOMAIN fs /\ OpenAttrs(<<p>>, lock)
     \/ \E p \in Rows : p \in DOMAIN fs /\ CopySelected(<<p>>)
     \/ \E p \in Rows : p \in DOMAIN fs /\ CutSelected(<<p>>)
     \/ \E d \in PasteDirs, confirm \in BOOLEAN : d \in DOMAIN fs /\ PasteItem(d, confirm)
     \/ \E p \in Rows : p \in DOMAIN fs /\ RenameSelected(p, nB)
     \/ \E items \in Selections(fs), yes \in BOOLEAN : DeleteSelected(items, yes)
     \/ \E items \in Selections(fs),
             q \in [mode : {"prefix"}, a : {<<>>}, b : {<<"b">>}, template : {<<>>},
                    start : {1}, step : {1}] : OpenBatchRename(items, q)

SpecWindow == InitWindow /\ [][NextWindow]_vars

(***************************************************************************)
(* Claims about build_plan.                                                *)
(***************************************************************************)
Planned == ren.op = "plan"

\* build_plan returned a plan.
Returned == Planned /\ ren.err = ""

ValidationErrors ==
  {"affix", "search", "regex_empty", "regex_invalid", "template_empty", "template_marker"}

\* The call failed in the checks of its parameters: nothing was computed and
\* the filesystem is as it was.
Rejected ==
  /\ ren.err \in ValidationErrors
  /\ ren.computed = 0
  /\ ren.plan = <<>>
  /\ fs = ren.pre

\* The fields as build_plan reads them, surrounding whitespace removed.
FieldA == Strip(ren.a)

FieldB == Strip(ren.b)

\* The effective template: the template field, else B.
EffectiveTemplate == OrElse(Strip(ren.template), FieldB)

\* C7: every plan build_plan returns has pairwise distinct destinations, and
\* no destination is an entry that exists on disk unless it is the path of
\* the item's own source.
C7_PlanHitsNothingOnDisk ==
  Returned =>
    /\ \A i, j \in 1..Len(ren.plan) : i # j => ren.plan[i].dst # ren.plan[j].dst
    /\ \A i \in 1..Len(ren.plan) :
         ren.plan[i].dst \in DOMAIN fs => ren.plan[i].dst = ren.plan[i].src

\* The placeholders {n} and {n:WIDTH}: t[i..j] is one.
IsPlaceholder(t, i, j) ==
  /\ 1 <= i /\ j <= Len(t) /\ j >= i + 2
  /\ t[i] = "{" /\ t[i + 1] = "n" /\ t[j] = "}"
  /\ \/ j = i + 2
     \/ /\ j >= i + 4
        /\ t[i + 2] = ":"
        /\ \A k \in (i + 3)..(j - 1) : IsDigit(t[k])

HasPlaceholder(t) == \E i, j \in 1..Len(t) : IsPlaceholder(t, i, j)

\* C8: in template mode build_plan fails with a validation error, before any
\* destination is computed, whenever the effective template is empty or holds
\* no placeholder {n} or {n:WIDTH}.
C8_TemplateNeedsPlaceholder ==
  (Planned /\ ren.mode = "template" /\ ~HasPlaceholder(EffectiveTemplate)) => Rejected

\* The parameters the claim C9 calls malformed, read from the fields a and b.
Malformed(a, b) ==
  \/ ren.mode \in {"prefix", "suffix"} /\ a = <<>> /\ b = <<>>
  \/ ren.mode = "replace" /\ a = <<>>
  \/ ren.mode = "regex" /\ (a = <<>> \/ ~IsValidRegex(a))

\* Every item of the plan has the stem of its source with affix b before it
\* (prefix) or after it (suffix).
AffixIs(b) ==
  \A i \in 1..Len(ren.plan) :
    LET src == ren.plan[i].src
        stem == IF ren.mode = "prefix" THEN b \o Stem(src) ELSE Stem(src) \o b
    IN ren.plan[i].dst = PathJoin(Parent(src), stem \o Suffix(src))

BothGiven(a, b) ==
  Returned /\ ren.mode \in {"prefix", "suffix"} /\ a # <<>> /\ b # <<>> /\ ren.plan # <<>>

\* C9 as stated, A and B being the texts of the fields as they were passed:
\* malformed parameters are rejected before anything is computed, and when
\* A and B are both non-empty the affix is B.
C9_RejectsMalformedRawFields ==
  Planned =>
    /\ Malformed(ren.a, ren.b) => Rejected
    /\ BothGiven(ren.a, ren.b) => AffixIs(ren.b)

\* C9, A and B being the fields with their surrounding whitespace removed:
\* malformed parameters are rejected with a validation error before any
\* destination is computed and with the filesystem untouched, for every list
\* of paths; when A and B are both non-empty the affix is B.
C9_RejectsMalformedTrimmedFields ==
  Planned =>
    /\ Malformed(FieldA, FieldB) => Rejected
    /\ BothGiven(FieldA, FieldB) => AffixIs(FieldB)

\* A rejection happened: an empty list of paths and a pattern with an
\* unbalanced group.
C9_Witness ==
  /\ Planned /\ Rejected
  /\ ren.mode = "regex" /\ FieldA = <<"(">> /\ ren.err = "regex_invalid"
  /\ ren.paths = <<>>

\* The digits of n, zeros before them up to the width w.
Padded(n, w) ==
  LET digits == IntToStr(n)
      zeros == IF w > Len(digits) THEN w - Len(digits) ELSE 0
  IN [k \in 1..(zeros + Len(digits)) |-> IF k <= zeros THEN "0" ELSE digits[k - zeros]]

\* The width a placeholder t[i..j] gives, 0 when it gives none.
WidthAt(t, i, j) == IF j = i + 2 THEN 0 ELSE ParseInt(SubSeq(t, i + 3, j - 1), 0)

RECURSIVE Expanded(_, _, _)
\* The template t from position i on, every placeholder replaced by the
\* counter value n.
Expanded(t, i, n) ==
  IF i > Len(t) THEN <<>>
  ELSE IF \E j \in i..Len(t) : IsPlaceholder(t, i, j)
  THEN LET j == CHOOSE j \in i..Len(t) : IsPlaceholder(t, i, j)
       IN Padded(n, WidthAt(t, i, j)) \o Expanded(t, j + 1, n)
  ELSE <<t[i]>> \o Expanded(t, i + 1, n)

\* C10: in template mode the i-th path (i = 0, 1, ...) gets the stem made by
\* expanding every placeholder of the effective template with the counter
\* start + i*step, zero-padded on the left to the placeholder's width, and
\* then the extension of its source.
C10_TemplateCounter ==
  (Returned /\ ren.mode = "template") =>
    /\ Len(ren.plan) = Len(ren.paths)
    /\ \A k \in 1..Len(ren.plan) :
         LET p == ren.paths[k]
             n == ren.start + (k - 1) * ren.step
         IN /\ ren.plan[k].src = p
            /\ ren.plan[k].dst
                 = PathJoin(Parent(p), Expanded(EffectiveTemplate, 1, n) \o Suffix(p))

\* Two paths renamed by a template with a width, the counter moving by 2 from
\* 9: f009 and f011.
C10_Witness ==
  /\ Returned /\ ren.mode = "template"
  /\ EffectiveTemplate = <<"f", "{", "n", ":", "0", "3", "}">>
  /\ ren.start = 9 /\ ren.step = 2
  /\ Len(ren.plan) = 2
  /\ Name(ren.plan[1].dst) = <<"f", "0", "0", "9">> \o Suffix(ren.paths[1])
  /\ Name(ren.plan[2].dst) = <<"f", "0", "1", "1">> \o Suffix(ren.paths[2])

(***************************************************************************)
(* Claims about compare_dirs.                                              *)
(***************************************************************************)
Compared == cmp.op = "compare"

\* The relative paths listed in one of the four sequences.
RelsOf(list) == [i \in 1..Len(list) |-> list[i][1].rel]

\* How many times relative path k is listed in the four sequences together.
TimesListed(k) ==
  LET Count(list) == Cardinality({i \in 1..Len(list) : RelsOf(list)[i] = k})
  IN Count(cmp.res.only_left) + Count(cmp.res.only_right)
     + Count(cmp.res.different) + Count(cmp.res.same)

ListedIn(list, k) == \E i \in 1..Len(list) : list[i][1].rel = k

AllListed ==
  {RelsOf(cmp.res[c])[i] : <<c, i>> \in
     UNION {{<<c, i>> : i \in 1..Len(cmp.res[c])} : c \in {"only_left", "only_right", "different", "same"}}}

\* C4: every relative path that is a key of the left or the right snapshot
\* is listed exactly once in the four sequences together, and nothing else
\* is listed.
C4_Partition ==
  Compared =>
    /\ \A k \in DOMAIN cmp.L \cup DOMAIN cmp.R : TimesListed(k) = 1
    /\ AllListed \subseteq DOMAIN cmp.L \cup DOMAIN cmp.R

\* A comparison of two different trees that filled all four sequences.
C4_Witness ==
  /\ Compared
  /\ cmp.left # cmp.right
  /\ \A c \in {"only_left", "only_right", "different", "same"} : cmp.res[c] # <<>>

NonDirs(f, root) == {p \in DOMAIN f : IsUnder(p, root) /\ f[p].kind # "dir"}

\* Entry p can be read for hashing: a readable file, or a symbolic link that
\* leads to one.
Readable(f, p) ==
  \/ f[p].kind = "file" /\ f[p].err # "read"
  \/ /\ f[p].kind = "link"
     /\ Resolve(f, p).ok
     /\ IsFile(f, Resolve(f, p).path)
     /\ f[Resolve(f, p).path].err # "read"

SelfCompared == Compared /\ cmp.use_hash /\ cmp.left = cmp.right

NothingDiffers ==
  /\ cmp.res.only_left = <<>>
  /\ cmp.res.only_right = <<>>
  /\ cmp.res.different = <<>>
  /\ Len(cmp.res.same) = Cardinality(DOMAIN cmp.L)

\* C6 as stated: comparing a directory tree with itself with use_hash gives
\* empty only_left, only_right and different, for every tree.
C6_SelfCompareAnyTree == SelfCompared => NothingDiffers

\* C6 amended: comparing a directory tree with itself with use_hash gives
\* empty only_left, only_right and different, and lists every entry as same,
\* when every non-directory entry of the tree can be read for hashing.
C6_SelfCompareReadableTree ==
  (SelfCompared /\ \A p \in NonDirs(fs, cmp.left) : Readable(fs, p)) => NothingDiffers

\* A tree with a file, a directory and a symbolic link, all readable, compared
\* with itself.
C6_Witness ==
  /\ SelfCompared
  /\ \A p \in NonDirs(fs, cmp.left) : Readable(fs, p)
  /\ \E p \in NonDirs(fs, cmp.left) : fs[p].kind = "link"
  /\ \E p \in NonDirs(fs, cmp.left) : fs[p].kind = "file"
  /\ \E k \in DOMAIN cmp.L : cmp.L[k].is_dir
  /\ Len(cmp.res.same) >= 2

(***************************************************************************)
(* Claims about merge_copy_dir.                                            *)
(***************************************************************************)
Merged == merge.op = "merge"

Completed == Merged /\ merge.err = ""

CopyEvents == {i \in 1..Len(merge.log) : merge.log[i].ev = "copy"}

\* The regular files of the source tree when the call started.
SourceFiles ==
  {p \in DOMAIN merge.pre : IsUnder(p, merge.src) /\ p # merge.src /\ merge.pre[p].kind = "file"}

\* The destination directory the call merged source directory d into.
MergedInto(d) ==
  LET i == CHOOSE j \in 1..Len(merge.log) : merge.log[j].ev = "enter" /\ merge.log[j].src = d
  IN merge.log[i].dst

\* Path q was taken when event i happened: it existed before the call or an
\* earlier event of the call made it.
TakenAt(q, i) ==
  q \in DOMAIN merge.pre \/ \E j \in 1..(i - 1) : merge.log[j].dst = q

\* C1: whatever the outcome of merge_copy_dir(src, dst), every file and
\* directory that existed at or under dst before the call still exists at the
\* same path with the same type, content and times.
C1_DestinationPreserved ==
  Merged =>
    \A p \in DOMAIN merge.pre :
      IsUnder(p, merge.dst) => p \in DOMAIN fs /\ fs[p] = merge.pre[p]

\* A completed merge in which a copied file met an occupant of its name that
\* existed under dst before the call.
C1_Witness ==
  /\ Completed
  /\ \E i \in CopyEvents :
       LET e == merge.log[i]
           want == Append(Parent(e.dst), Name(e.src))
       IN want \in DOMAIN merge.pre /\ IsUnder(want, merge.dst) /\ e.dst # want

\* C2: a merge_copy_dir(src, dst) that returned has left the source tree
\* unchanged: no entry at or under src was created, removed or modified, for
\* every pair of arguments, dst = src and dst inside src included.
C2_SourceUnchanged ==
  Completed =>
    \A p \in DOMAIN merge.pre \cup DOMAIN fs :
      IsUnder(p, merge.src) =>
        p \in DOMAIN merge.pre /\ p \in DOMAIN fs /\ fs[p] = merge.pre[p]

\* C3: after a merge that completed, every regular file of the source tree
\* has produced exactly one copy; the copy is a newly created file with the
\* content of its source, no two copies share a path, and the copy lies in the
\* directory its source directory was merged into: under the source's own
\* name when that name was free there, else under 'stem (n).ext' next to the
\* occupant (a file or a directory).
C3_EveryFileCopiedOnce ==
  Completed =>
    /\ \A p \in SourceFiles : Cardinality({i \in CopyEvents : merge.log[i].src = p}) = 1
    /\ \A i \in CopyEvents :
         LET e == merge.log[i]
             dir == MergedInto(Parent(e.src))
             want == Append(dir, Name(e.src))
         IN /\ e.src \in SourceFiles
            /\ e.dst \notin DOMAIN merge.pre
            /\ IsFile(fs, e.dst)
            /\ fs[e.dst].data = merge.pre[e.src].data
            /\ \A j \in CopyEvents : j # i => merge.log[j].dst # e.dst
            /\ IF TakenAt(want, i)
               THEN /\ want \in DOMAIN fs
                    /\ \E n \in 1..Cardinality(DOMAIN fs) :
                         e.dst = Append(dir, Numbered(Stem(e.src), n, Suffix(e.src)))
               ELSE e.dst = want

\* A completed merge that copied one file under its own name and another
\* under a numbered name because a directory held its name.
C3_Witness ==
  /\ Completed
  /\ \E i \in CopyEvents : Name(merge.log[i].dst) = Name(merge.log[i].src)
  /\ \E i \in CopyEvents :
       LET e == merge.log[i]
       IN /\ Name(e.dst) # Name(e.src)
          /\ IsDir(merge.pre, Append(Parent(e.dst), Name(e.src)))

(***************************************************************************)
(* Claims about unique_path, unique_file_path and unique_dir_path.         *)
(***************************************************************************)
Uniquified == uniq.op = "unique"

\* An entry holds the name p, whatever it is and wherever it leads.
Occupied(f, p) == p \in DOMAIN f

\* The kind of name the call asks for; unique_path asks for the kind of the
\* occupant.
KindAsked ==
  IF uniq.fn = "unique_dir_path" \/ (uniq.fn = "unique_path" /\ IsDir(fs, uniq.path))
  THEN "directory" ELSE "file"

\* ' (n)'
Mark(n) == <<" ", "(">> \o IntToStr(n) \o <<")">>

\* The n-th name after p: 'stem (n).ext' for a file, 'name (n)' for a
\* directory.
NthName(kind, p, n) ==
  Append(Parent(p), IF kind = "directory" THEN Name(p) \o Mark(n)
                    ELSE Stem(p) \o Mark(n) \o Suffix(p))

\* C11: when the candidate is occupied the result is the candidate with
\* ' (n)' for the smallest n >= 1 whose name is not occupied, and nothing
\* holds the result when it is returned.
C11_SmallestFreeNumber ==
  (Uniquified /\ Occupied(fs, uniq.path)) =>
    \E n \in 1..3 :
      /\ uniq.res = NthName(KindAsked, uniq.path, n)
      /\ ~Occupied(fs, uniq.res)
      /\ \A k \in 1..(n - 1) : Occupied(fs, NthName(KindAsked, uniq.path, k))

\* C12: for both kinds, a candidate that does not exist is returned unchanged.
C12_FreeCandidateUnchanged ==
  (Uniquified /\ ~Occupied(fs, uniq.path)) => uniq.res = uniq.path

\* The names of the model written out: the file form of each candidate.
FileForm(name, n) ==
  CASE name = nAt -> <<"a">> \o Mark(n) \o <<".", "t">>
    [] name = nB -> <<"b">> \o Mark(n)
    [] name = nDotT -> <<".", "t">> \o Mark(n)

DirForm(name, n) == name \o Mark(n)

\* C13: the form of the name depends on the kind asked for alone, not on what
\* holds the candidate and not on dots in its name: unique_dir_path gives
\* 'name (n)', unique_file_path gives 'stem (n).ext', and n is the first
\* number whose name does not exist, whatever holds the names before it.
C13_FormByKindOnly ==
  (Uniquified /\ uniq.fn # "unique_path") =>
    \E n \in 1..3 :
      LET form(k) == IF uniq.fn = "unique_dir_path" THEN DirForm(Name(uniq.path), k)
                     ELSE FileForm(Name(uniq.path), k)
      IN /\ Parent(uniq.res) = Parent(uniq.path)
         /\ Name(uniq.res) = form(n)
         /\ ~Exists(fs, uniq.res)
         /\ \A k \in 1..(n - 1) : Exists(fs, Append(Parent(uniq.path), form(k)))

\* unique_dir_path on a.t, which a file holds, a.t (1) being a file too.
C13_Witness ==
  /\ Uniquified /\ uniq.fn = "unique_dir_path" /\ uniq.path = <<nD, nAt>>
  /\ IsFile(fs, <<nD, nAt>>) /\ IsFile(fs, <<nD, nAt1>>)
  /\ uniq.res = <<nD, nAt2>>

(***************************************************************************)
(* More claims about merge_copy_dir.                                       *)
(***************************************************************************)
\* The source of the call was a directory when the call was made.
SourceWasDir == merge.src \in DOMAIN merge.pre /\ merge.pre[merge.src].kind = "dir"

\* C14: merge_copy_dir fails with an invalid-argument error (ValueError) when
\* the source does not exist or is not a directory, and the filesystem is
\* then unchanged: the destination is not created and nothing is copied.
C14_BadSourceRejected ==
  (Merged /\ ~SourceWasDir) =>
    /\ merge.err = "ValueError"
    /\ fs = merge.pre
    /\ merge.log = <<>>

\* The source is a file, or is missing, and the destination does not exist.
C14_Witness ==
  /\ Merged /\ ~SourceWasDir
  /\ merge.src \in DOMAIN merge.pre
  /\ merge.dst \notin DOMAIN merge.pre
  /\ IsDir(merge.pre, Parent(merge.dst))
  /\ merge.err = "ValueError"

(***************************************************************************)
(* Claims about index_tree.                                                *)
(***************************************************************************)
\* index_tree returned.
Indexed == walk.op = "walk" /\ walk.done

\* The steps of the walk give what index_tree gives.
WalkIsIndexTree ==
  Indexed => walk.out = index_tree(fs, walk.root, walk.use_hash, walk.limit, walk.rev)

\* C15: index_tree stops recording once limit entries are recorded: the
\* snapshot it returns has at most limit entries.
C15_AtMostLimitEntries == Indexed => Cardinality(DOMAIN walk.out) <= walk.limit

\* os.scandir(d) lists the directory d.
Listable(f, d) == f[d].kind = "dir" /\ f[d].err # "list"

\* The entry p can be processed: its type can be read, and when it is a link
\* it leads to a path of the tree.
Processable(f, root, p) ==
  /\ f[p].err # "type"
  /\ f[p].kind = "link" => (Resolve(f, p).ok /\ IsUnder(Resolve(f, p).path, root))

\* The directories from root down to the one that holds p.
Above(root, p) == {SubSeq(p, 1, k) : k \in Len(root)..(Len(p) - 1)}

\* The walk is due to meet p: every directory above p can be listed and,
\* below the root, processed.
Due(f, root, p) ==
  /\ Len(p) > Len(root) /\ SubSeq(p, 1, Len(root)) = root
  /\ \A q \in Above(root, p) : Listable(f, q) /\ (q # root => Processable(f, root, q))

\* C16: an error on one entry skips that entry alone and an error on listing
\* a directory skips that subtree alone: under a limit that is not reached,
\* every entry that the walk is due to meet and that can be processed is in
\* the snapshot.
C16_OnlyTheFailingEntrySkipped ==
  (Indexed /\ walk.limit = DefaultLimit) =>
    \A p \in DOMAIN fs :
      (Due(fs, walk.root, p) /\ Processable(fs, walk.root, p))
        => RelStr(Resolve(fs, p).path, walk.root) \in DOMAIN walk.out

\* No directory is listed twice, under whatever name.
EachDirOnce ==
  \A i, j \in 1..Len(walk.scanned) :
    i # j => Resolve(fs, walk.scanned[i]).path # Resolve(fs, walk.scanned[j]).path

\* The stack holds directories, no links to them.
StackOfRealDirs ==
  \A i \in 1..Len(walk.stack) :
    walk.stack[i] \in DOMAIN fs /\ fs[walk.stack[i]].kind = "dir"

\* C20: index_tree returns on every tree, links that form a cycle included;
\* its stack holds real directories only and each is listed at most once.
C20_WalkTerminates ==
  /\ <>Indexed
  /\ [](walk.op = "walk" => (EachDirOnce /\ StackOfRealDirs))

\* The walk returned from a tree three directories deep in which d/b is a
\* link to d.
C20_Witness ==
  /\ Indexed
  /\ <<nL, nD, nB>> \in DOMAIN fs /\ fs[<<nL, nD, nB>>] = LinkNode(<<nL, nD>>)
  /\ walk.scanned = <<<<nL>>, <<nL, nD>>, <<nL, nD, nE>>>>

(***************************************************************************)
(* More claims about compare_dirs.                                         *)
(***************************************************************************)
\* Key k is listed as c and as nothing else of "same" and "different".
ListedAs(c, k) ==
  /\ ListedIn(cmp.res[c], k)
  /\ ~ListedIn(cmp.res[IF c = "same" THEN "different" ELSE "same"], k)

\* C17: a path of both snapshots that is a directory on one side only is
\* listed as different, whatever the sizes, times and hashes; a path that is
\* a directory on both sides is listed as same, whatever the sizes and times,
\* with and without use_hash.
C17_DirectoryRules ==
  Compared =>
    \A k \in DOMAIN cmp.L \cap DOMAIN cmp.R :
      /\ cmp.L[k].is_dir # cmp.R[k].is_dir => ListedAs("different", k)
      /\ (cmp.L[k].is_dir /\ cmp.R[k].is_dir) => ListedAs("same", k)

\* a is a directory on the left and a file on the right; d is a directory on
\* both sides, with two different times.
C17_Witness ==
  /\ Compared /\ cmp.left # cmp.right
  /\ <<"a">> \in DOMAIN cmp.L \cap DOMAIN cmp.R
  /\ cmp.L[<<"a">>].is_dir /\ ~cmp.R[<<"a">>].is_dir
  /\ <<"d">> \in DOMAIN cmp.L \cap DOMAIN cmp.R
  /\ cmp.L[<<"d">>].is_dir /\ cmp.R[<<"d">>].is_dir
  /\ cmp.L[<<"d">>].mtime_ns # cmp.R[<<"d">>].mtime_ns
  /\ ListedIn(cmp.res.different, <<"a">>) /\ ListedIn(cmp.res.same, <<"d">>)

\* C18: without use_hash, a path that is a non-directory on both sides is
\* listed as same if and only if the sizes are equal and the modification
\* times in nanoseconds are equal, and as different otherwise.
C18_SizeAndTimeRule ==
  (Compared /\ ~cmp.use_hash) =>
    \A k \in DOMAIN cmp.L \cap DOMAIN cmp.R :
      (~cmp.L[k].is_dir /\ ~cmp.R[k].is_dir) =>
        IF cmp.L[k].size = cmp.R[k].size /\ cmp.L[k].mtime_ns = cmp.R[k].mtime_ns
        THEN ListedAs("same", k) ELSE ListedAs("different", k)

\* The file a has the same size and another time on the two sides, and is
\* listed as different.
C18_Witness ==
  /\ Compared /\ ~cmp.use_hash
  /\ <<"a">> \in DOMAIN cmp.L \cap DOMAIN cmp.R
  /\ ~cmp.L[<<"a">>].is_dir /\ ~cmp.R[<<"a">>].is_dir
  /\ cmp.L[<<"a">>].size = cmp.R[<<"a">>].size
  /\ cmp.L[<<"a">>].mtime_ns # cmp.R[<<"a">>].mtime_ns
  /\ ListedIn(cmp.res.different, <<"a">>)

\* C19: each of the four sequences is in strictly ascending order of the
\* relative paths, so that the snapshots alone decide the sequences.
C19_SortedResult ==
  Compared =>
    \A c \in {"only_left", "only_right", "different", "same"} :
      \A i, j \in 1..Len(cmp.res[c]) :
        i < j => StrLess(RelsOf(cmp.res[c])[i], RelsOf(cmp.res[c])[j])

\* A tree compared with itself: a, d and d/b are listed as same, in this
\* order.
C19_Witness ==
  /\ Compared /\ cmp.left = cmp.right
  /\ RelsOf(cmp.res.same) = <<<<"a">>, <<"d">>, <<"d", "/", "b">>>>

(***************************************************************************)
(* Claims about the directories merge_copy_dir meets.                      *)
(***************************************************************************)
\* The calls merge_copy_dir made on a child directory of a source directory.
ChildEnters == {i \in 2..Len(merge.log) : merge.log[i].ev = "enter"}

\* The destination directory of the call that was running when event i
\* happened on a child of source directory d.
DstOfParent(d, i) ==
  LET js == {j \in 1..(i - 1) : merge.log[j].ev = "enter" /\ merge.log[j].src = d}
      j == CHOOSE k \in js : \A l \in js : l <= k
  IN merge.log[j].dst

\* What held path q when event i happened: "dir", "file" or "none".
KindAt(q, i) ==
  IF q \in DOMAIN merge.pre THEN merge.pre[q].kind
  ELSE IF \E j \in 1..(i - 1) : merge.log[j].dst = q
       THEN LET j == CHOOSE k \in 1..(i - 1) : merge.log[k].dst = q
            IN IF merge.log[j].ev = "enter" THEN "dir" ELSE "file"
       ELSE "none"

\* C21: a child directory of the source whose name is a directory in the
\* destination is merged into that directory, which keeps everything it held
\* and gets no numbered twin; a child directory whose name is a file in the
\* destination is merged into a new directory 'name (n)', and the file keeps
\* its path and its content.
C21_DirectoryMeetsOccupant ==
  Merged =>
    \A i \in ChildEnters :
      LET e == merge.log[i]
          dir == DstOfParent(Parent(e.src), i)
          want == PathJoin(dir, Name(e.src))
      IN CASE KindAt(want, i) = "dir" ->
                /\ e.dst = want
                /\ IsDir(fs, want)
                /\ \A p \in DOMAIN merge.pre :
                     IsUnder(p, want) => p \in DOMAIN fs /\ fs[p] = merge.pre[p]
                /\ \A n \in 1..Cardinality(DOMAIN fs) :
                     LET twin == PathJoin(dir, DirForm(Name(e.src), n))
                     IN twin \in DOMAIN fs => twin \in DOMAIN merge.pre
           [] KindAt(want, i) = "file" ->
                /\ \E n \in 1..Cardinality(DOMAIN fs) :
                     /\ e.dst = PathJoin(dir, DirForm(Name(e.src), n))
                     /\ \A k \in 1..(n - 1) :
                          KindAt(PathJoin(dir, DirForm(Name(e.src), k)), i) # "none"
                /\ KindAt(e.dst, i) = "none"
                /\ IsDir(fs, e.dst)
                /\ IsFile(fs, want)
                /\ want \in DOMAIN merge.pre => fs[want] = merge.pre[want]
           [] OTHER -> e.dst = want /\ IsDir(fs, want)

\* A merge of /s into /t that returned: d of the source went into the
\* directory /t/d, which held a file, and d/n of the source went into the new
\* directory '/t/d/n (1)', next to the file /t/d/n.
C21_Witness ==
  /\ Completed /\ merge.src = <<nS>> /\ merge.dst = <<nT>>
  /\ IsDir(merge.pre, <<nT, nD>>) /\ IsFile(merge.pre, <<nT, nD, nX>>)
  /\ IsFile(merge.pre, <<nT, nD, nN>>)
  /\ \E i, j \in ChildEnters :
       /\ merge.log[i].src = <<nS, nD>> /\ merge.log[i].dst = <<nT, nD>>
       /\ merge.log[j].src = <<nS, nD, nN>>
       /\ merge.log[j].dst = <<nT, nD, DirForm(nN, 1)>>
  /\ fs[<<nT, nD, nN>>] = merge.pre[<<nT, nD, nN>>]

\* The calls merge_copy_dir made on itself, the first one included.
Enters == {i \in 1..Len(merge.log) : merge.log[i].ev = "enter"}

\* C26: whatever the destination, inside the source tree included, the
\* directories merge_copy_dir is called on are directories the source tree
\* held when the first call started, each of them once.
C26_RecursesIntoSourceDirsOnly ==
  Merged =>
    /\ \A i \in Enters :
         LET d == merge.log[i].src
         IN d \in DOMAIN merge.pre /\ merge.pre[d].kind = "dir" /\ IsUnder(d, merge.src)
    /\ \A i, j \in Enters : merge.log[i].src = merge.log[j].src => i = j

(***************************************************************************)
(* More claims about build_plan.                                           *)
(***************************************************************************)
\* C28: every item of a plan build_plan returns has its destination in the
\* directory of its source, for every mode and every text of the fields, a
\* text with a path separator included.
C28_DestinationBesideSource ==
  Returned =>
    \A i \in 1..Len(ren.plan) : Parent(ren.plan[i].dst) = Parent(ren.plan[i].src)

(***************************************************************************)
(* More claims about index_tree.                                           *)
(***************************************************************************)
\* The entry of the tree that has the relative path k.
EntryAt(root, k) == root \o SplitSlash(k, <<>>)

\* C22: in the snapshot index_tree returns, the record under key k has
\* rel = k and is the record of the entry whose own path under root is k,
\* also when a symbolic link was met: no record of an entry stands under the
\* path of another entry.
C22_RecordedUnderOwnPath ==
  Indexed =>
    \A k \in DOMAIN walk.out :
      /\ walk.out[k].rel = k
      /\ EntryAt(walk.root, k) \in DOMAIN fs
      /\ walk.out[k] = FileInfo(fs, EntryAt(walk.root, k), k, walk.use_hash)

(***************************************************************************)
(* Claims about the plan applied by open_batch_rename.                     *)
(***************************************************************************)
\* open_batch_rename got a plan and started to apply it.
Applied == win.op = "batch" /\ win.plan # <<>>

\* C27: when the items of a plan build_plan returned are renamed in the
\* order of the plan, on the filesystem the plan was built on, no item
\* takes the place of an entry: at the moment an item is renamed its
\* destination holds nothing, or is the path of the item's own source.
C27_ApplyReplacesNothing ==
  Applied =>
    \A i \in 1..win.tried :
      win.plan[i].dst # win.plan[i].src => win.met[i] = "none"

\* C23: a rename that fails in the middle of a plan leaves the renames
\* before it applied and does not keep the items after it from being
\* renamed: every item of the plan has had its rename called.
C23_FailureAffectsOneItem ==
  Applied =>
    /\ win.tried = Len(win.plan)
    /\ \A i \in 1..(win.tried - 1) :
         win.plan[i].dst \in DOMAIN fs \/ \E j \in (i + 1)..win.tried :
                                            IsUnder(win.plan[i].dst, win.plan[j].src)

(***************************************************************************)
(* Claims about the workflows of the window.                               *)
(***************************************************************************)
\* The last workflow left the filesystem, the clipboard and the locks as
\* they were.
NothingDone == fs = win.pre /\ clipboard = win.clipPre /\ locked = win.lockedPre

\* The last workflow was a paste with something on the clipboard.
Pasted == win.op = "paste" /\ win.clipPre.src # <<>>

\* C24: a paste whose clipboard source is locked or whose destination
\* directory is locked, and a delete whose selection holds a locked row,
\* change nothing on the filesystem and leave the clipboard as it was.
C24_LockedMeansUntouched ==
  /\ (Pasted /\ (win.clipPre.src \in win.lockedPre \/ win.dst_dir \in win.lockedPre))
       => NothingDone
  /\ (win.op = "delete" /\ \E i \in 1..Len(win.items) : win.items[i] \in win.lockedPre)
       => NothingDone

\* The directory /l/s, cut and not locked, was pasted into the locked
\* directory /r, which had no entry s: nothing moved.
C24_Witness ==
  /\ Pasted /\ win.dst_dir = <<nR>> /\ <<nR>> \in win.lockedPre
  /\ win.clipPre = [src |-> <<nL, nS>>, is_cut |-> TRUE]
  /\ <<nL, nS>> \notin win.lockedPre
  /\ <<nR, nS>> \notin DOMAIN win.pre
  /\ win.err = "locked" /\ NothingDone

\* C25: after a paste of a cut directory that ended without an error, every
\* file the directory held before the paste is under the destination
\* directory with its content, whatever the destination directory.
C25_CutKeepsEveryFile ==
  (Pasted /\ win.err = "" /\ win.clipPre.is_cut /\ IsDir(win.pre, win.clipPre.src)) =>
    \A p \in Subtree(win.pre, win.clipPre.src) :
      win.pre[p].kind = "file" =>
        \E q \in DOMAIN fs : /\ IsUnder(q, win.dst_dir) /\ q # win.dst_dir
                             /\ fs[q].kind = "file" /\ fs[q].data = win.pre[p].data

\* C29: a single rename, a batch rename, a delete and a paste leave every
\* path that was locked when the workflow started where it was and as it
\* was.
C29_LockedPathsStay ==
  win.op \in {"rename", "batch", "delete", "paste"} =>
    \A p \in win.lockedPre \cap DOMAIN win.pre :
      p \in DOMAIN fs /\ fs[p] = win.pre[p]

====
